---- MODULE Spec2Model ----
(***************************************************************************)
(* cash-cushion: the credential vault pipeline (exchange-token,            *)
(* get-transactions, refresh-transactions route handlers over the          *)
(* plaid_items table) and the AES-256-GCM envelope codec they share.       *)
(*                                                                         *)
(* A JavaScript string is a sequence of UTF-16 code units (naturals), a    *)
(* Buffer a sequence of bytes 0..255.  User ids, item ids and public       *)
(* tokens are opaque and never converted, so they stay TLA+ strings.       *)
(***************************************************************************)
EXTENDS Integers, Sequences, FiniteSets, TLC

(* ------------------------------------------------------------------ *)
(* Bounds of the model                                                 *)
(* ------------------------------------------------------------------ *)
\* requests started in one behaviour
MaxStarted == 2
\* code units of a plaintext handed to the codec
MaxPlainLen == 2
\* encrypt calls made in one behaviour of the codec on its own
MaxEncodes == 3

\* auth state changes the listener of one AuthProvider is called with
MaxAuthEvents == 3

\* calls of handleSuccess of one connector
MaxLinkRuns == 2

\* requests of one component that may await their response at once
MaxInFlight == 2

(* ------------------------------------------------------------------ *)
(* Program constants                                                   *)
(* ------------------------------------------------------------------ *)
IV_LENGTH == 16
AUTH_TAG_LENGTH == 16
KEY_LENGTH == 32

(* ------------------------------------------------------------------ *)
(* Buffer <-> string conversions of Node                               *)
(* ------------------------------------------------------------------ *)
\* s.substring(a, b): code units a .. b-1, 0-based, clamped to the string
Substring(s, a, b) ==
    LET lo == IF a > Len(s) THEN Len(s) ELSE a
        hi == IF b > Len(s) THEN Len(s) ELSE b
    IN  IF hi <= lo THEN <<>> ELSE SubSeq(s, lo + 1, hi)

\* the code unit of the lower-case hex digit n
HexDigit(n) == IF n < 10 THEN 48 + n ELSE 87 + n

\* buf.toString('hex'): two digits for every byte
ToHex(bytes) ==
    [k \in 1..(2 * Len(bytes)) |->
        IF k % 2 = 1 THEN HexDigit(bytes[(k + 1) \div 2] \div 16)
        ELSE HexDigit(bytes[k \div 2] % 16)]

\* the value of a hex digit in either case, -1 for any other code unit
HexValOf(c) ==
    IF c >= 48 /\ c <= 57 THEN c - 48
    ELSE IF c >= 97 /\ c <= 102 THEN c - 87
    ELSE IF c >= 65 /\ c <= 70 THEN c - 55
    ELSE -1

\* HexValOf tabulated for the code units below 128; none above is a digit
HexTable == [c \in 0..127 |-> HexValOf(c)]

HexVal(c) == IF c < 128 THEN HexTable[c] ELSE -1

\* the whole pairs of hex digits s starts with: all of them, or those before
\* the first pair that holds another character
HexPairs(s) ==
    LET whole == Len(s) \div 2
        bad == {n \in 1..whole : HexVal(s[2 * n - 1]) < 0 \/ HexVal(s[2 * n]) < 0}
    IN  IF bad = {} THEN whole
        ELSE (CHOOSE n \in bad : \A m \in bad : n <= m) - 1

\* Buffer.from(s, 'hex'): whole pairs of hex digits, up to the first pair
\* that is not one
FromHex(s) ==
    [i \in 1..HexPairs(s) |-> HexVal(s[2 * i - 1]) * 16 + HexVal(s[2 * i])]

\* the value of a base64 character of the standard or the URL-safe
\* alphabet, -1 for any other code unit
Base64Val(c) ==
    IF c >= 65 /\ c <= 90 THEN c - 65
    ELSE IF c >= 97 /\ c <= 122 THEN c - 71
    ELSE IF c >= 48 /\ c <= 57 THEN c + 4
    ELSE IF c = 43 \/ c = 45 THEN 62
    ELSE IF c = 47 \/ c = 95 THEN 63
    ELSE -1

\* the characters of s before its first '='
BeforePadding(s) ==
    LET pads == {k \in 1..Len(s) : s[k] = 61}
    IN  IF pads = {} THEN s
        ELSE SubSeq(s, 1, (CHOOSE k \in pads : \A m \in pads : k <= m) - 1)

\* Buffer.from(s, 'base64'): the characters outside the alphabet are passed
\* over, the data end at the first '=', every four characters give three
\* bytes and a rest of two or three characters gives one or two
Base64Decode(s) ==
    LET sextets == SelectSeq(BeforePadding(s), LAMBDA c : Base64Val(c) >= 0)
        Pair(q) == Base64Val(sextets[q]) * 64 + Base64Val(sextets[q + 1])
        Shift(r) == IF r = 0 THEN 16 ELSE IF r = 2 THEN 4 ELSE 1
    IN  [k \in 1..((Len(sextets) * 6) \div 8) |->
            (Pair(((8 * (k - 1)) \div 6) + 1) \div Shift((8 * (k - 1)) % 6)) % 256]

\* the base64 character of the value v
Base64Char(v) ==
    IF v < 26 THEN 65 + v
    ELSE IF v < 52 THEN 71 + v
    ELSE IF v < 62 THEN v - 4
    ELSE IF v = 62 THEN 43
    ELSE 47

\* buf.toString('base64'): four characters for every three bytes, '=' for
\* the characters a last group of one or two bytes leaves open
Base64Encode(bytes) ==
    LET At(b) == IF b <= Len(bytes) THEN bytes[b] ELSE 0
        Window(b) == At(b) * 256 + At(b + 1)
        Shift(r) == IF r = 0 THEN 1024 ELSE IF r = 2 THEN 256
                    ELSE IF r = 4 THEN 64 ELSE 16
        filled == (Len(bytes) * 8 + 5) \div 6
    IN  [j \in 1..(4 * ((Len(bytes) + 2) \div 3)) |->
            IF j > filled THEN 61
            ELSE Base64Char((Window(((6 * (j - 1)) \div 8) + 1)
                                \div Shift((6 * (j - 1)) % 8)) % 64)]

IsHighSurrogate(c) == c >= 55296 /\ c <= 56319
IsLowSurrogate(c) == c >= 56320 /\ c <= 57343

\* the UTF-8 bytes of one code point
Utf8OfCodePoint(cp) ==
    IF cp < 128 THEN <<cp>>
    ELSE IF cp < 2048 THEN <<192 + (cp \div 64), 128 + (cp % 64)>>
    ELSE IF cp < 65536
         THEN <<224 + (cp \div 4096), 128 + ((cp \div 64) % 64), 128 + (cp % 64)>>
    ELSE <<240 + (cp \div 262144), 128 + ((cp \div 4096) % 64),
           128 + ((cp \div 64) % 64), 128 + (cp % 64)>>

\* Buffer.from(s, 'utf8'): a surrogate pair is one code point, an unpaired
\* surrogate is written as U+FFFD
RECURSIVE Utf8Encode(_)
Utf8Encode(s) ==
    IF s = <<>> THEN <<>>
    ELSE IF IsHighSurrogate(s[1]) /\ Len(s) >= 2 /\ IsLowSurrogate(s[2])
         THEN Utf8OfCodePoint(65536 + (s[1] - 55296) * 1024 + (s[2] - 56320))
                  \o Utf8Encode(SubSeq(s, 3, Len(s)))
    ELSE IF IsHighSurrogate(s[1]) \/ IsLowSurrogate(s[1])
         THEN Utf8OfCodePoint(65533) \o Utf8Encode(Tail(s))
    ELSE Utf8OfCodePoint(s[1]) \o Utf8Encode(Tail(s))

IsCont(b, i) == i <= Len(b) /\ b[i] >= 128 /\ b[i] <= 191

\* the code units of one code point
Utf16OfCodePoint(cp) ==
    IF cp < 65536 THEN <<cp>>
    ELSE <<55296 + ((cp - 65536) \div 1024), 56320 + ((cp - 65536) % 1024)>>

\* buf.toString('utf8'): an ill-formed sequence decodes to U+FFFD
RECURSIVE Utf8Decode(_)
Utf8Decode(b) ==
    IF b = <<>> THEN <<>>
    ELSE IF b[1] < 128 THEN <<b[1]>> \o Utf8Decode(Tail(b))
    ELSE IF b[1] >= 194 /\ b[1] <= 223 /\ IsCont(b, 2)
         THEN Utf16OfCodePoint((b[1] - 192) * 64 + (b[2] - 128))
                  \o Utf8Decode(SubSeq(b, 3, Len(b)))
    ELSE IF b[1] >= 224 /\ b[1] <= 239 /\ IsCont(b, 2) /\ IsCont(b, 3)
            /\ (b[1] - 224) * 4096 + (b[2] - 128) * 64 + (b[3] - 128) >= 2048
            /\ ~ (b[1] = 237 /\ b[2] >= 160)
         THEN Utf16OfCodePoint((b[1] - 224) * 4096 + (b[2] - 128) * 64 + (b[3] - 128))
                  \o Utf8Decode(SubSeq(b, 4, Len(b)))
    ELSE IF b[1] >= 240 /\ b[1] <= 244 /\ IsCont(b, 2) /\ IsCont(b, 3) /\ IsCont(b, 4)
            /\ (b[1] - 240) * 262144 + (b[2] - 128) * 4096
                   + (b[3] - 128) * 64 + (b[4] - 128) >= 65536
            /\ (b[1] - 240) * 262144 + (b[2] - 128) * 4096
                   + (b[3] - 128) * 64 + (b[4] - 128) <= 1114111
         THEN Utf16OfCodePoint((b[1] - 240) * 262144 + (b[2] - 128) * 4096
                                   + (b[3] - 128) * 64 + (b[4] - 128))
                  \o Utf8Decode(SubSeq(b, 5, Len(b)))
    ELSE <<65533>> \o Utf8Decode(Tail(b))

(* ------------------------------------------------------------------ *)
(* AES-256-GCM of Node's crypto, as a keyed stream cipher with a tag   *)
(* ------------------------------------------------------------------ *)
\* the configured keys the model draws from: 32 bytes each
KeyOf(k) == [i \in 1..KEY_LENGTH |-> (k * 17 + i) % 256]
Keys == {KeyOf(1), KeyOf(2)}

\* the values crypto.randomBytes(IV_LENGTH) may return
NonceOf(n) == [i \in 1..IV_LENGTH |-> (n * 29 + i * 3) % 256]
Nonces == {NonceOf(1), NonceOf(2)}

\* byte j of the key stream of (key, iv)
KeyStream(key, iv, j) ==
    (key[((j - 1) % Len(key)) + 1] * 7 + iv[((j - 1) % Len(iv)) + 1] * 13 + j * 31) % 256

\* cipher.update(..) + cipher.final(): the bytes enciphered one by one
CipherBytes(key, iv, bytes) ==
    [j \in 1..Len(bytes) |-> (bytes[j] + KeyStream(key, iv, j)) % 256]

\* decipher.update(..): the inverse of CipherBytes
DecipherBytes(key, iv, bytes) ==
    [j \in 1..Len(bytes) |-> (bytes[j] + 256 - KeyStream(key, iv, j)) % 256]

RECURSIVE WeightedFrom(_, _, _)
WeightedFrom(bytes, w, k) ==
    IF k > Len(bytes) THEN 0
    ELSE ((bytes[k] * (w + k)) % 256) + WeightedFrom(bytes, w, k + 1)

\* the bytes summed with weights w + 1, w + 2, ...
WeightedSum(bytes, w) == WeightedFrom(bytes, w, 1)

\* cipher.getAuthTag(): 16 bytes that depend on the key, the iv and every
\* byte of the ciphertext.  Each byte of the iv and of the ciphertext has an
\* odd weight in one of the two sums, so that no change of one byte leaves
\* the tag as it was
AuthTagOf(key, iv, ct) ==
    LET plainSum == WeightedSum(iv, -1) + 3 * WeightedSum(ct, -1)
        rankSum == WeightedSum(iv, 0) + 5 * WeightedSum(ct, 0)
                       + Len(iv) * 7 + Len(ct) * 11
    IN  [i \in 1..AUTH_TAG_LENGTH |->
            (key[((i - 1) % Len(key)) + 1] * 3 + i * plainSum + rankSum + i) % 256]

(* ------------------------------------------------------------------ *)
(* State                                                               *)
(* ------------------------------------------------------------------ *)
VARIABLES
    encryptionKey,  \* Buffer.from(process.env.ENCRYPTION_KEY, 'base64')
    plaid_items,    \* the rows of the plaid_items table
    reqs,           \* the route handler invocations in flight, by slot
    resp,           \* the response the last step returned, NoResp if none
    lastLink,       \* per item, what the last exchange that stored it wrote
    started,        \* requests started so far
    cpc,            \* codec harness: position
    cplain,         \* codec harness: the plaintext handed to encrypt
    cblob,          \* codec harness: the string encrypt returned
    cout,           \* codec harness: what decrypt returned
    ctamper,        \* codec harness: how cblob was changed after encrypt
    encoded,        \* codec harness: the encrypt calls made, in order
    auth,           \* browser: the state of AuthProvider
    home,           \* browser: the state of the Home page
    link,           \* browser: the state of PlaidLinkConnector
    txlist          \* browser: the state of TransactionList

vars == <<encryptionKey, plaid_items, reqs, resp, lastLink, started,
          cpc, cplain, cblob, cout, ctamper, encoded, auth, home, link, txlist>>
serverVars == <<plaid_items, reqs, resp, lastLink, started>>
codecVars == <<cpc, cplain, cblob, cout, ctamper, encoded>>
pageVars == <<auth, home, link, txlist>>

(* ------------------------------------------------------------------ *)
(* Envelope codec                                                      *)
(* ------------------------------------------------------------------ *)
\* a plausible slip: the length of the key is not looked at
KeyGuardAbsent(key) == TRUE

\* exchange-token: the module refuses to load unless the key has 32 bytes
KeyGuard(key) == Len(key) = KEY_LENGTH

\* a plausible slip: the plaintext is stored as it is
EncryptIdentity(plain, iv) == plain

\* a plausible slip: the iv is left out of the returned string
EncryptNoIv(plain, iv) ==
    LET enc == CipherBytes(encryptionKey, iv, Utf8Encode(plain))
        authTag == AuthTagOf(encryptionKey, iv, enc)
    IN  ToHex(authTag \o enc)

\* a plausible slip: the cipher is set up with one and the same iv
EncryptFixedIv(plain, iv) ==
    LET enc == CipherBytes(encryptionKey, NonceOf(1), Utf8Encode(plain))
        authTag == AuthTagOf(encryptionKey, NonceOf(1), enc)
    IN  ToHex(NonceOf(1) \o authTag \o enc)

\* exchange-token encrypt(), iv being what crypto.randomBytes returned
encrypt(plain, iv) ==
    LET enc == CipherBytes(encryptionKey, iv, Utf8Encode(plain))
        authTag == AuthTagOf(encryptionKey, iv, enc)
    IN  ToHex(iv \o authTag \o enc)

\* exchange-token (insert variant) encrypt(): hex of each part, concatenated
encryptInsert(text, iv) ==
    LET encrypted == ToHex(CipherBytes(encryptionKey, iv, Utf8Encode(text)))
        authTag == AuthTagOf(encryptionKey, iv, FromHex(encrypted))
    IN  ToHex(iv) \o ToHex(authTag) \o encrypted

\* the tag lengths decipher.setAuthTag accepts for GCM
ValidTagLengths == {4, 8, 12, 13, 14, 15, 16}

\* a plausible slip: the blob is read as hex and handed back undeciphered
DecryptNoDecipher(encryptedText) ==
    [ok |-> TRUE,
     value |-> Utf8Decode(FromHex(Substring(encryptedText,
                   (IV_LENGTH + AUTH_TAG_LENGTH) * 2, Len(encryptedText))))]

\* get-transactions decrypt(): ok is FALSE where it throws "Decryption failed"
decrypt(encryptedText) ==
    LET iv == FromHex(Substring(encryptedText, 0, IV_LENGTH * 2))
        authTag == FromHex(Substring(encryptedText, IV_LENGTH * 2,
                                     (IV_LENGTH + AUTH_TAG_LENGTH) * 2))
        encrypted == Substring(encryptedText, (IV_LENGTH + AUTH_TAG_LENGTH) * 2,
                               Len(encryptedText))
        ct == FromHex(encrypted)
    IN  IF Len(iv) = 0 \/ Len(authTag) \notin ValidTagLengths
        THEN [ok |-> FALSE, value |-> <<>>]
        ELSE IF SubSeq(AuthTagOf(encryptionKey, iv, ct), 1, Len(authTag)) # authTag
        THEN [ok |-> FALSE, value |-> <<>>]
        ELSE [ok |-> TRUE, value |-> Utf8Decode(DecipherBytes(encryptionKey, iv, ct))]

(* ------------------------------------------------------------------ *)
(* Collaborators: identity provider, aggregation provider, table       *)
(* ------------------------------------------------------------------ *)
Users == {"u1", "u2"}
\* the caller of a request that carries no valid session
Anon == "anon"
Callers == Users \cup {Anon}
Items == {"i1", "i2"}

\* the access tokens the provider issues: "a1", "a2", "a3"
CredA1 == <<97, 49>>
CredA2 == <<97, 50>>
CredA3 == <<97, 51>>

\* plaidClient.itemPublicTokenExchange: what each public token resolves to
ExchangeTable ==
    [t \in {"pub1", "pub2", "pub3"} |->
        IF t = "pub1" THEN [access_token |-> CredA1, item_id |-> "i1"]
        ELSE IF t = "pub2" THEN [access_token |-> CredA2, item_id |-> "i1"]
        ELSE [access_token |-> CredA3, item_id |-> "i2"]]
\* public tokens a request body may carry: "" is a missing one
BodyTokens == DOMAIN ExchangeTable \cup {""}
ProviderCredentials == {ExchangeTable[t].access_token : t \in DOMAIN ExchangeTable}

\* the provider serves a data call only for an access token it issued
PlaidAccepts(access_token) == access_token \in ProviderCredentials

\* response.data of transactionsGet for a credential: the transactions in
\* the order of the provider (which is not the order of their dates), the
\* accounts and the item
TransactionsOf(access_token) ==
    IF access_token = CredA3
    THEN [transactions |-> <<[id |-> "t4", date |-> 2, pending |-> TRUE]>>,
          accounts |-> <<"acc3">>, item |-> "i2"]
    ELSE [transactions |-> <<[id |-> "t1", date |-> 2, pending |-> FALSE],
                             [id |-> "t2", date |-> 3, pending |-> TRUE],
                             [id |-> "t3", date |-> 1, pending |-> FALSE]>>,
          accounts |-> <<"acc2", "acc1">>, item |-> "i1"]

\* a body without transactions, accounts and item
NoData == [transactions |-> <<>>, accounts |-> <<>>, item |-> ""]

\* a plausible slip: the transactions are sorted by date, newest first, as
\* the GET handler of the route does
NewestFirst(data) ==
    [transactions |-> SortSeq(data.transactions, LAMBDA a, b : a.date > b.date),
     accounts |-> data.accounts, item |-> data.item]

\* the three members the handler takes from response.data and returns
PassedOn(data) ==
    [transactions |-> data.transactions, accounts |-> data.accounts, item |-> data.item]

\* how a call of the provider ends: with its data, with an error answer
\* (error.response.data carries an error_code, error.response.status the
\* HTTP status), or with no answer at all (an error without a response)
PlaidOk == [kind |-> "ok", status |-> 200, error_code |-> "", error_message |-> ""]
PlaidInvalid ==
    [kind |-> "plaid", status |-> 400, error_code |-> "INVALID_INPUT",
     error_message |-> "invalid token"]
PlaidRateLimit ==
    [kind |-> "plaid", status |-> 429, error_code |-> "RATE_LIMIT_EXCEEDED",
     error_message |-> "rate limit exceeded"]
NoAnswer ==
    [kind |-> "network", status |-> 0, error_code |-> "",
     error_message |-> "socket hang up"]
\* the ends of itemPublicTokenExchange and of transactionsGet / itemGet
ExchangeOutcomes == {PlaidOk, PlaidInvalid, NoAnswer}
PlaidOutcomes == {PlaidOk, PlaidInvalid, PlaidRateLimit, NoAnswer}

\* the provider never serves a token it did not issue
PlaidAnswer(issued, out) == IF issued \/ out.kind # "ok" THEN out ELSE PlaidInvalid

\* nothing was thrown
NoError == [kind |-> "none", status |-> 0, error_code |-> "", error_message |-> ""]

\* what request.json() throws on a body that is not JSON
BodySyntaxError ==
    [kind |-> "syntax", status |-> 0, error_code |-> "",
     error_message |-> "Unexpected token"]

\* new Error(`Database error ...: ${dbError.message}`)
DatabaseError(message) ==
    [kind |-> "database", status |-> 0, error_code |-> "", error_message |-> message]

\* created_at of a new row: the table's clock, later for every later insert
NextCreatedAt(rows) == Cardinality(rows) + 1

\* a plausible slip: the new row is added whatever the table holds
UpsertAppend(rows, row) ==
    rows \cup {[row EXCEPT !.created_at = NextCreatedAt(rows)]}

\* a plausible slip: on a conflict only the access_token is replaced
UpsertKeepOwner(rows, row) ==
    IF \E old \in rows : old.item_id = row.item_id
    THEN {IF old.item_id = row.item_id
          THEN [old EXCEPT !.access_token = row.access_token]
          ELSE old : old \in rows}
    ELSE rows \cup {[row EXCEPT !.created_at = NextCreatedAt(rows)]}

\* .upsert(row, {onConflict: 'item_id'}): one statement; a row with that
\* item_id gets the user_id and access_token of the payload
UpsertRow(rows, row) ==
    IF \E old \in rows : old.item_id = row.item_id
    THEN {IF old.item_id = row.item_id
          THEN [old EXCEPT !.user_id = row.user_id, !.access_token = row.access_token]
          ELSE old : old \in rows}
    ELSE rows \cup {[row EXCEPT !.created_at = NextCreatedAt(rows)]}

\* .insert([row]) on a table whose item_id is unique: error 23505 on a
\* duplicate, the table unchanged
InsertRow(rows, row) ==
    IF \E old \in rows : old.item_id = row.item_id
    THEN [error |-> "23505", rows |-> rows]
    ELSE [error |-> "none",
          rows |-> rows \cup {[row EXCEPT !.created_at = NextCreatedAt(rows)]}]

\* a plausible slip: the lookup filters on item_id alone
FindByItem(rows, item_id, userId) == {row \in rows : row.item_id = item_id}

\* .eq('item_id', item_id).eq('user_id', userId)
FindOwned(rows, item_id, userId) ==
    {row \in rows : row.item_id = item_id /\ row.user_id = userId}

NoRow == [user_id |-> "", item_id |-> "", access_token |-> <<>>, created_at |-> 0]

\* .single(): the one row, and an error unless there is exactly one
Single(rows) ==
    IF Cardinality(rows) = 1
    THEN [data |-> CHOOSE row \in rows : TRUE, error |-> "none"]
    ELSE [data |-> NoRow, error |-> "PGRST116"]

\* a plausible slip: the rows are ordered with the oldest first
FindEarliest(rows, userId) ==
    LET mine == {row \in rows : row.user_id = userId}
    IN  IF mine = {} THEN [data |-> NoRow, error |-> "none"]
        ELSE [data |-> CHOOSE row \in mine :
                           \A other \in mine : row.created_at <= other.created_at,
              error |-> "none"]

\* .eq('user_id', userId).order('created_at', desc).limit(1).maybeSingle():
\* the newest row of the user, no error when there is none
FindLatest(rows, userId) ==
    LET mine == {row \in rows : row.user_id = userId}
    IN  IF mine = {} THEN [data |-> NoRow, error |-> "none"]
        ELSE [data |-> CHOOSE row \in mine :
                           \A other \in mine : other.created_at <= row.created_at,
              error |-> "none"]

(* ------------------------------------------------------------------ *)
(* Requests and responses                                              *)
(* ------------------------------------------------------------------ *)
\* the handler invocations that may be in flight together
Slots == {"s1", "s2"}

\* the calls one handler invocation has made so far: the provider's
\* exchange, the table write, the table lookup, the provider's data calls
NoCalls == [exchange |-> 0, store |-> 0, lookup |-> 0, fetch |-> 0]

\* request r after one more call of the given sort
Called(r, what) == [r EXCEPT !.calls[what] = @ + 1]

\* an empty slot; the fields are the locals of a handler.  caller is who
\* holds the session of the request, rowOwner the user_id of the row a
\* lookup returned, foreign whether the looked-up item_id was stored under
\* another user, linked the credential the provider issued in the last
\* exchange this user stored for the item ("" when there is none),
\* overtaken whether another exchange stored the same item while this one
\* was between the provider's answer and its own write
Idle ==
    [kind |-> "idle", pc |-> "idle", caller |-> "", userId |-> "",
     public_token |-> "", item_id |-> "", access_token |-> <<>>,
     encrypted |-> <<>>, rowOwner |-> "", foreign |-> FALSE, linked |-> <<>>,
     overtaken |-> FALSE, calls |-> NoCalls]

NoLink == [userId |-> "", access_token |-> <<>>, encrypted |-> <<>>, caller |-> ""]

\* a response body without a details member
NoDetails == [absent |-> TRUE]

\* no request has returned yet; body_item_id is the item_id member of the
\* response body, "" when the body has none
NoResp ==
    [kind |-> "none", caller |-> "", userId |-> "", public_token |-> "",
     item_id |-> "", status |-> 0, message |-> "", dbError |-> "none",
     wrote |-> FALSE, raced |-> FALSE, prevOwner |-> "",
     blobRead |-> <<>>, rowOwner |-> "", foreign |-> FALSE, linked |-> <<>>,
     decoded |-> FALSE, plaidCalled |-> FALSE, plaidToken |-> <<>>,
     success |-> FALSE, details |-> NoDetails, uncaught |-> FALSE,
     calls |-> NoCalls, thrown |-> NoError, body_item_id |-> "", data |-> NoData]

\* NextResponse.json({success: false, message}, {status}) of request r
Response(r, status, message) ==
    [NoResp EXCEPT !.kind = r.kind, !.caller = r.caller, !.userId = r.userId,
                   !.public_token = r.public_token, !.item_id = r.item_id,
                   !.status = status, !.message = message,
                   !.blobRead = IF r.kind \in {"get_transactions", "refresh"}
                                THEN r.encrypted ELSE <<>>,
                   !.rowOwner = r.rowOwner, !.foreign = r.foreign,
                   !.linked = r.linked, !.raced = r.overtaken,
                   !.calls = r.calls]

\* NextResponse.json({success: true, message, ..}, {status: 200})
Success(r, message) == [Response(r, 200, message) EXCEPT !.success = TRUE]

\* an exception leaves the handler: the framework answers 500 with no body
\* of the handler's
Uncaught(r, err) ==
    [Response(r, 500, "") EXCEPT !.uncaught = TRUE, !.thrown = err]

\* the status of a provider error: error.response.status, 500 without one
StatusOf(err) == IF err.status # 0 THEN err.status ELSE 500

\* the handler in slot s returns
Return(s, response) ==
    /\ reqs' = [reqs EXCEPT ![s] = Idle]
    /\ resp' = response

\* the user_id of the row of item_id, "" when there is none
OwnerOf(rows, item_id) ==
    IF \E row \in rows : row.item_id = item_id
    THEN (CHOOSE row \in rows : row.item_id = item_id).user_id
    ELSE ""

\* the handler in slot s returns after its write took effect; an exchange
\* of the same item that has the provider's answer and has not yet written
\* is marked overtaken
ReturnWritten(s, response) ==
    /\ reqs' = [o \in Slots |->
                   IF o = s THEN Idle
                   ELSE IF reqs[o].pc \in {"upsert", "insert"}
                           /\ reqs[o].item_id = reqs[s].item_id
                        THEN [reqs[o] EXCEPT !.overtaken = TRUE]
                        ELSE reqs[o]]
    /\ resp' = [response EXCEPT !.wrote = TRUE,
                                !.prevOwner = OwnerOf(plaid_items, reqs[s].item_id)]

(* ------------------------------------------------------------------ *)
(* POST /api/plaid/exchange-token (upsert on item_id)                  *)
(* ------------------------------------------------------------------ *)
\* the catch block: a provider error goes out with its status and its data,
\* anything else as 500 with the message of the error
ExchangeCatch(r, err) ==
    IF err.error_code # ""
    THEN [Response(r, StatusOf(err), "Plaid error")
             EXCEPT !.details = [error_code |-> err.error_code,
                                 error_message |-> err.error_message],
                    !.thrown = err]
    ELSE [Response(r, 500, err.error_message) EXCEPT !.thrown = err]

\* a plausible slip: a missing public_token is not looked for
ExchangeStartNoCheck(s, caller, public_token, parses) ==
    /\ reqs[s].kind = "idle"
    /\ started < MaxStarted
    /\ (parses /\ caller # Anon) \/ public_token = ""
    /\ started' = started + 1
    /\ LET r == [Idle EXCEPT !.kind = "exchange", !.caller = caller,
                             !.public_token = public_token]
       IN  IF caller = Anon
           THEN Return(s, Response(r, 401, "Unauthorized"))
           ELSE IF ~ parses
           THEN Return(s, Uncaught([r EXCEPT !.userId = caller], BodySyntaxError))
           ELSE /\ reqs' = [reqs EXCEPT ![s] =
                               [r EXCEPT !.pc = "exchange", !.userId = caller]]
                /\ resp' = NoResp
    /\ UNCHANGED <<encryptionKey, plaid_items, lastLink, codecVars, pageVars>>

\* steps 1 and 2: validate the session, parse the body.  req.json() is
\* awaited outside the try block: a body that does not parse throws out of
\* the handler.  public_token is "" where the handler gets none: the body
\* does not parse, or the request has no session and its body is not read
ExchangeStart(s, caller, public_token, parses) ==
    /\ reqs[s].kind = "idle"
    /\ started < MaxStarted
    /\ (parses /\ caller # Anon) \/ public_token = ""
    /\ started' = started + 1
    /\ LET r == [Idle EXCEPT !.kind = "exchange", !.caller = caller,
                             !.public_token = public_token]
       IN  IF caller = Anon
           THEN Return(s, Response(r, 401, "Unauthorized"))
           ELSE IF ~ parses
           THEN Return(s, Uncaught([r EXCEPT !.userId = caller], BodySyntaxError))
           ELSE IF public_token = ""
           THEN Return(s, Response([r EXCEPT !.userId = caller], 400,
                                   "Missing public_token"))
           ELSE /\ reqs' = [reqs EXCEPT ![s] =
                               [r EXCEPT !.pc = "exchange", !.userId = caller]]
                /\ resp' = NoResp
    /\ UNCHANGED <<encryptionKey, plaid_items, lastLink, codecVars, pageVars>>

\* a plausible slip: a failed exchange is tried once more
ExchangePlaidRetry(s) ==
    /\ reqs[s].kind = "exchange"
    /\ reqs[s].pc = "exchange"
    /\ \E out \in ExchangeOutcomes, iv \in Nonces :
          LET answer == PlaidAnswer(reqs[s].public_token \in DOMAIN ExchangeTable, out)
              r == Called(reqs[s], "exchange")
          IN  IF answer.kind = "ok"
              THEN LET data == ExchangeTable[r.public_token]
                   IN  /\ reqs' = [reqs EXCEPT ![s] =
                                      [r EXCEPT !.pc = "upsert",
                                                !.access_token = data.access_token,
                                                !.item_id = data.item_id,
                                                !.encrypted = encrypt(data.access_token, iv)]]
                       /\ resp' = NoResp
              ELSE IF r.calls.exchange < 2
              THEN /\ reqs' = [reqs EXCEPT ![s] = r]
                   /\ resp' = NoResp
              ELSE Return(s, ExchangeCatch(r, answer))
    /\ UNCHANGED <<encryptionKey, plaid_items, lastLink, started, codecVars, pageVars>>

\* steps 3 and 4: exchange the public token, encrypt the access token
ExchangePlaid(s) ==
    /\ reqs[s].kind = "exchange"
    /\ reqs[s].pc = "exchange"
    /\ \E out \in ExchangeOutcomes, iv \in Nonces :
          LET answer == PlaidAnswer(reqs[s].public_token \in DOMAIN ExchangeTable, out)
              r == Called(reqs[s], "exchange")
          IN  IF answer.kind = "ok"
              THEN LET data == ExchangeTable[r.public_token]
                   IN  /\ reqs' = [reqs EXCEPT ![s] =
                                      [r EXCEPT !.pc = "upsert",
                                                !.access_token = data.access_token,
                                                !.item_id = data.item_id,
                                                !.encrypted = encrypt(data.access_token, iv)]]
                       /\ resp' = NoResp
              ELSE Return(s, ExchangeCatch(r, answer))
    /\ UNCHANGED <<encryptionKey, plaid_items, lastLink, started, codecVars, pageVars>>

\* a plausible slip: the error of the upsert is not looked at
ExchangeUpsertIgnoreError(s) ==
    /\ reqs[s].kind = "exchange"
    /\ reqs[s].pc = "upsert"
    /\ \E dbfail \in BOOLEAN :
          LET r == Called(reqs[s], "store")
          IN  IF dbfail
              THEN /\ Return(s, [Success(r, "Stored successfully")
                                    EXCEPT !.dbError = "io",
                                           !.body_item_id = r.item_id])
                   /\ UNCHANGED <<plaid_items, lastLink>>
              ELSE /\ plaid_items' =
                          UpsertRow(plaid_items,
                                    [user_id |-> r.userId, item_id |-> r.item_id,
                                     access_token |-> r.encrypted, created_at |-> 0])
                   /\ lastLink' = [lastLink EXCEPT ![r.item_id] =
                                      [userId |-> r.userId,
                                       access_token |-> r.access_token,
                                       encrypted |-> r.encrypted,
                                       caller |-> r.caller]]
                   /\ ReturnWritten(s, [Success(r, "Stored successfully")
                                           EXCEPT !.body_item_id = r.item_id])
    /\ UNCHANGED <<encryptionKey, started, codecVars, pageVars>>

\* steps 5 and 6: the upsert, then the response
ExchangeUpsert(s) ==
    /\ reqs[s].kind = "exchange"
    /\ reqs[s].pc = "upsert"
    /\ \E dbfail \in BOOLEAN :
          LET r == Called(reqs[s], "store")
          IN  IF dbfail
              THEN /\ Return(s, [ExchangeCatch(r,
                                     DatabaseError("Database error saving Plaid item"))
                                    EXCEPT !.dbError = "io"])
                   /\ UNCHANGED <<plaid_items, lastLink>>
              ELSE /\ plaid_items' =
                          UpsertRow(plaid_items,
                                    [user_id |-> r.userId, item_id |-> r.item_id,
                                     access_token |-> r.encrypted, created_at |-> 0])
                   /\ lastLink' = [lastLink EXCEPT ![r.item_id] =
                                      [userId |-> r.userId,
                                       access_token |-> r.access_token,
                                       encrypted |-> r.encrypted,
                                       caller |-> r.caller]]
                   /\ ReturnWritten(s, [Success(r, "Stored successfully")
                                           EXCEPT !.body_item_id = r.item_id])
    /\ UNCHANGED <<encryptionKey, started, codecVars, pageVars>>

(* ------------------------------------------------------------------ *)
(* POST exchange-token, the variant that inserts                       *)
(* ------------------------------------------------------------------ *)
\* the catch block: of a provider error the status and the error_message go
\* out, a database error under a fixed message, anything else as 500
InsertCatch(r, err) ==
    IF err.error_code # ""
    THEN [Response(r, StatusOf(err), "Plaid API error")
             EXCEPT !.details = [text |-> err.error_message], !.thrown = err]
    ELSE IF err.kind = "database"
    THEN [Response(r, 500, "Database error storing token.") EXCEPT !.thrown = err]
    ELSE [Response(r, 500, "Internal Server Error")
             EXCEPT !.details = [text |-> err.error_message], !.thrown = err]

\* step 1: public_token and user_id are read from the body.  The handler
\* asks the identity provider nothing, so it serves a request that carries
\* no session: the caller is Anon
InsertStart(s, public_token, user_id, parses) ==
    /\ reqs[s].kind = "idle"
    /\ started < MaxStarted
    /\ parses \/ (public_token = "" /\ user_id = "")
    /\ started' = started + 1
    /\ LET r == [Idle EXCEPT !.kind = "exchange_insert", !.caller = Anon,
                             !.public_token = public_token, !.userId = user_id]
       IN  IF ~ parses
           THEN Return(s, InsertCatch(r, BodySyntaxError))
           ELSE IF public_token = ""
           THEN Return(s, Response(r, 400, "Missing public_token"))
           ELSE IF user_id = ""
           THEN Return(s, Response(r, 400, "Missing user identifier"))
           ELSE /\ reqs' = [reqs EXCEPT ![s] = [r EXCEPT !.pc = "exchange"]]
                /\ resp' = NoResp
    /\ UNCHANGED <<encryptionKey, plaid_items, lastLink, codecVars, pageVars>>

\* steps 2 and 3: exchange the public token, encrypt the access token
InsertPlaid(s) ==
    /\ reqs[s].kind = "exchange_insert"
    /\ reqs[s].pc = "exchange"
    /\ \E out \in ExchangeOutcomes, iv \in Nonces :
          LET answer == PlaidAnswer(reqs[s].public_token \in DOMAIN ExchangeTable, out)
              r == Called(reqs[s], "exchange")
          IN  IF answer.kind = "ok"
              THEN LET data == ExchangeTable[r.public_token]
                   IN  /\ reqs' = [reqs EXCEPT ![s] =
                                      [r EXCEPT !.pc = "insert",
                                                !.access_token = data.access_token,
                                                !.item_id = data.item_id,
                                                !.encrypted =
                                                    encryptInsert(data.access_token, iv)]]
                       /\ resp' = NoResp
              ELSE Return(s, InsertCatch(r, answer))
    /\ UNCHANGED <<encryptionKey, plaid_items, lastLink, started, codecVars, pageVars>>

\* steps 4 and 5: the insert, then the response
InsertStore(s) ==
    /\ reqs[s].kind = "exchange_insert"
    /\ reqs[s].pc = "insert"
    /\ \E dbfail \in BOOLEAN :
          LET r == Called(reqs[s], "store")
              res == IF dbfail THEN [error |-> "io", rows |-> plaid_items]
                     ELSE InsertRow(plaid_items,
                              [user_id |-> r.userId, item_id |-> r.item_id,
                               access_token |-> r.encrypted, created_at |-> 0])
          IN  IF res.error # "none"
              THEN /\ Return(s, [InsertCatch(r,
                                     DatabaseError("Database error saving Plaid item"))
                                    EXCEPT !.dbError = res.error])
                   /\ UNCHANGED <<plaid_items, lastLink>>
              ELSE /\ plaid_items' = res.rows
                   /\ lastLink' = [lastLink EXCEPT ![r.item_id] =
                                      [userId |-> r.userId,
                                       access_token |-> r.access_token,
                                       encrypted |-> r.encrypted,
                                       caller |-> r.caller]]
                   /\ ReturnWritten(s, Success(r,
                                        "Token exchanged and stored successfully"))
    /\ UNCHANGED <<encryptionKey, started, codecVars, pageVars>>

(* ------------------------------------------------------------------ *)
(* POST /api/plaid/get-transactions                                    *)
(* ------------------------------------------------------------------ *)
\* a plausible slip: every provider error goes out as 500
GetTxCatchAll500(r, err) ==
    IF err.error_code # ""
    THEN [Response(r, 500, "Plaid API error")
             EXCEPT !.details = [text |-> err.error_message], !.thrown = err]
    ELSE IF err.kind = "database"
    THEN [Response(r, 500, err.error_message) EXCEPT !.thrown = err]
    ELSE [Response(r, 500, "Internal Server Error")
             EXCEPT !.details = [text |-> err.error_message], !.thrown = err]

\* the catch block: of a provider error the status and the error_message go
\* out, a database error with its message, anything else as 500
GetTxCatch(r, err) ==
    IF err.error_code # ""
    THEN [Response(r, StatusOf(err), "Plaid API error")
             EXCEPT !.details = [text |-> err.error_message], !.thrown = err]
    ELSE IF err.kind = "database"
    THEN [Response(r, 500, err.error_message) EXCEPT !.thrown = err]
    ELSE [Response(r, 500, "Internal Server Error")
             EXCEPT !.details = [text |-> err.error_message], !.thrown = err]

\* steps 1 and 2: the authenticated user, item_id of the body; item_id is ""
\* where the handler gets none (no session, or a body that does not parse)
GetTxStart(s, caller, item_id, parses) ==
    /\ reqs[s].kind = "idle"
    /\ started < MaxStarted
    /\ (parses /\ caller # Anon) \/ item_id = ""
    /\ started' = started + 1
    /\ LET r == [Idle EXCEPT !.kind = "get_transactions", !.caller = caller,
                             !.item_id = item_id]
       IN  IF caller = Anon
           THEN Return(s, Response(r, 401, "Unauthorized"))
           ELSE IF ~ parses
           THEN Return(s, GetTxCatch([r EXCEPT !.userId = caller], BodySyntaxError))
           ELSE IF item_id = ""
           THEN Return(s, Response([r EXCEPT !.userId = caller], 400, "Missing item_id"))
           ELSE /\ reqs' = [reqs EXCEPT ![s] =
                               [r EXCEPT !.pc = "lookup", !.userId = caller]]
                /\ resp' = NoResp
    /\ UNCHANGED <<encryptionKey, plaid_items, lastLink, codecVars, pageVars>>

\* a plausible slip: a blob that does not decrypt is used as it is
GetTxLookupUseRaw(s) ==
    /\ reqs[s].kind = "get_transactions"
    /\ reqs[s].pc = "lookup"
    /\ \E dbfail \in BOOLEAN :
          LET found == IF dbfail THEN [data |-> NoRow, error |-> "io"]
                       ELSE Single(FindOwned(plaid_items, reqs[s].item_id,
                                             reqs[s].userId))
              r == [Called(reqs[s], "lookup") EXCEPT
                       !.encrypted = found.data.access_token,
                       !.rowOwner = found.data.user_id,
                       !.foreign = \E row \in plaid_items :
                                       /\ row.item_id = reqs[s].item_id
                                       /\ row.user_id # reqs[s].userId,
                       !.linked = IF lastLink[reqs[s].item_id].userId = reqs[s].userId
                                  THEN lastLink[reqs[s].item_id].access_token
                                  ELSE <<>>]
              plain == decrypt(found.data.access_token)
          IN  IF found.error # "none"
              THEN Return(s, [GetTxCatch(r, DatabaseError("Database error fetching token"))
                                 EXCEPT !.dbError = found.error])
              ELSE IF found.data.access_token = <<>>
              THEN Return(s, Response(r, 404, "Plaid item not found for this user."))
              ELSE /\ reqs' = [reqs EXCEPT ![s] =
                                  [r EXCEPT !.pc = "fetch",
                                            !.access_token =
                                                IF plain.ok THEN plain.value
                                                ELSE found.data.access_token]]
                   /\ resp' = NoResp
    /\ UNCHANGED <<encryptionKey, plaid_items, lastLink, started, codecVars, pageVars>>

\* steps 3 and 4: the row of (item_id, user_id), then decrypt
GetTxLookup(s) ==
    /\ reqs[s].kind = "get_transactions"
    /\ reqs[s].pc = "lookup"
    /\ \E dbfail \in BOOLEAN :
          LET found == IF dbfail THEN [data |-> NoRow, error |-> "io"]
                       ELSE Single(FindOwned(plaid_items, reqs[s].item_id,
                                             reqs[s].userId))
              r == [Called(reqs[s], "lookup") EXCEPT
                       !.encrypted = found.data.access_token,
                       !.rowOwner = found.data.user_id,
                       !.foreign = \E row \in plaid_items :
                                       /\ row.item_id = reqs[s].item_id
                                       /\ row.user_id # reqs[s].userId,
                       !.linked = IF lastLink[reqs[s].item_id].userId = reqs[s].userId
                                  THEN lastLink[reqs[s].item_id].access_token
                                  ELSE <<>>]
              plain == decrypt(found.data.access_token)
          IN  IF found.error # "none"
              THEN Return(s, [GetTxCatch(r, DatabaseError("Database error fetching token"))
                                 EXCEPT !.dbError = found.error])
              ELSE IF found.data.access_token = <<>>
              THEN Return(s, Response(r, 404, "Plaid item not found for this user."))
              ELSE IF ~ plain.ok
              THEN Return(s, Response(r, 500, "Failed to process access token"))
              ELSE /\ reqs' = [reqs EXCEPT ![s] =
                                  [r EXCEPT !.pc = "fetch",
                                            !.access_token = plain.value]]
                   /\ resp' = NoResp
    /\ UNCHANGED <<encryptionKey, plaid_items, lastLink, started, codecVars, pageVars>>

\* steps 5 and 6: plaidClient.transactionsGet, then the response
GetTxFetch(s) ==
    /\ reqs[s].kind = "get_transactions"
    /\ reqs[s].pc = "fetch"
    /\ \E out \in PlaidOutcomes :
          LET answer == PlaidAnswer(PlaidAccepts(reqs[s].access_token), out)
              r == Called(reqs[s], "fetch")
          IN  IF answer.kind = "ok"
              THEN Return(s, [Success(r, "")
                                 EXCEPT !.decoded = TRUE, !.plaidCalled = TRUE,
                                        !.plaidToken = r.access_token,
                                        !.data = PassedOn(TransactionsOf(r.access_token))])
              ELSE Return(s, [GetTxCatch(r, answer)
                                 EXCEPT !.decoded = TRUE, !.plaidCalled = TRUE,
                                        !.plaidToken = r.access_token])
    /\ UNCHANGED <<encryptionKey, plaid_items, lastLink, started, codecVars, pageVars>>

(* ------------------------------------------------------------------ *)
(* POST refresh-transactions                                           *)
(* ------------------------------------------------------------------ *)
\* the session
RefreshStart(s, caller) ==
    /\ reqs[s].kind = "idle"
    /\ started < MaxStarted
    /\ started' = started + 1
    /\ LET r == [Idle EXCEPT !.kind = "refresh", !.caller = caller]
       IN  IF caller = Anon
           THEN Return(s, Response(r, 401, "Unauthorized"))
           ELSE /\ reqs' = [reqs EXCEPT ![s] =
                               [r EXCEPT !.pc = "lookup", !.userId = caller]]
                /\ resp' = NoResp
    /\ UNCHANGED <<encryptionKey, plaid_items, lastLink, codecVars, pageVars>>

\* the newest item of the user and its access_token column
RefreshLookup(s) ==
    /\ reqs[s].kind = "refresh"
    /\ reqs[s].pc = "lookup"
    /\ \E dbfail \in BOOLEAN :
          LET found == IF dbfail THEN [data |-> NoRow, error |-> "io"]
                       ELSE FindLatest(plaid_items, reqs[s].userId)
              r == [Called(reqs[s], "lookup") EXCEPT
                       !.item_id = found.data.item_id,
                       !.encrypted = found.data.access_token,
                       !.rowOwner = found.data.user_id,
                       !.linked = IF found.data.item_id = "" THEN <<>>
                                  ELSE lastLink[found.data.item_id].access_token]
          IN  IF found.error # "none"
              THEN Return(s, [Response(r, 500, "Error fetching Plaid connection")
                                 EXCEPT !.dbError = found.error])
              ELSE IF found.data.item_id = "" \/ found.data.access_token = <<>>
              THEN Return(s, Response(r, 404, "No Plaid account connected"))
              ELSE /\ reqs' = [reqs EXCEPT ![s] =
                                  [r EXCEPT !.pc = "plaid",
                                            !.access_token = found.data.access_token]]
                   /\ resp' = NoResp
    /\ UNCHANGED <<encryptionKey, plaid_items, lastLink, started, codecVars, pageVars>>

\* client.itemGet and, when it answered, client.transactionsSync, both with
\* itemData.access_token, then the response; an error of either lands in
\* the catch block and goes out as 500 with its message
RefreshPlaid(s) ==
    /\ reqs[s].kind = "refresh"
    /\ reqs[s].pc = "plaid"
    /\ \E out \in PlaidOutcomes, syncs \in BOOLEAN :
          LET answer == PlaidAnswer(PlaidAccepts(reqs[s].access_token), out)
              got == Called(reqs[s], "fetch")
          IN  IF answer.kind # "ok"
              THEN Return(s, [Response(got, 500, "Request failed")
                                 EXCEPT !.plaidCalled = TRUE, !.thrown = answer,
                                        !.plaidToken = got.access_token])
              ELSE IF ~ syncs
              THEN Return(s, [Response(Called(got, "fetch"), 500, "Request failed")
                                 EXCEPT !.plaidCalled = TRUE, !.thrown = NoAnswer,
                                        !.plaidToken = got.access_token])
              ELSE Return(s, [Success(Called(got, "fetch"),
                                      "Transactions synced successfully")
                                 EXCEPT !.plaidCalled = TRUE,
                                        !.plaidToken = got.access_token])
    /\ UNCHANGED <<encryptionKey, plaid_items, lastLink, started, codecVars, pageVars>>

(* ------------------------------------------------------------------ *)
(* GET /api/user/plaid-items                                           *)
(* ------------------------------------------------------------------ *)
\* step 1: the authenticated user
ItemsStart(s, caller) ==
    /\ reqs[s].kind = "idle"
    /\ started < MaxStarted
    /\ started' = started + 1
    /\ LET r == [Idle EXCEPT !.kind = "plaid_items", !.caller = caller]
       IN  IF caller = Anon
           THEN Return(s, Response(r, 401, "Unauthorized"))
           ELSE /\ reqs' = [reqs EXCEPT ![s] =
                               [r EXCEPT !.pc = "lookup", !.userId = caller]]
                /\ resp' = NoResp
    /\ UNCHANGED <<encryptionKey, plaid_items, lastLink, codecVars, pageVars>>

\* steps 2 and 3: the item_id of the newest row of the user, null (here "")
\* when the query returns no row, then the response; an error of the query
\* is thrown and goes out of the catch block as 500
ItemsLookup(s) ==
    /\ reqs[s].kind = "plaid_items"
    /\ reqs[s].pc = "lookup"
    /\ \E dbfail \in BOOLEAN :
          LET found == IF dbfail THEN [data |-> NoRow, error |-> "io"]
                       ELSE FindLatest(plaid_items, reqs[s].userId)
              r == [Called(reqs[s], "lookup") EXCEPT
                       !.item_id = found.data.item_id,
                       !.rowOwner = found.data.user_id]
          IN  IF found.error # "none"
              THEN Return(s, [Response(r, 500,
                                       "Internal Server Error fetching Plaid item ID")
                                 EXCEPT !.dbError = found.error,
                                        !.details =
                                            [text |-> "Database error fetching Plaid item"],
                                        !.thrown =
                                            DatabaseError("Database error fetching Plaid item")])
              ELSE Return(s, [Success(r, "") EXCEPT !.body_item_id = found.data.item_id])
    /\ UNCHANGED <<encryptionKey, plaid_items, lastLink, started, codecVars, pageVars>>

(* ------------------------------------------------------------------ *)
(* The server                                                          *)
(* ------------------------------------------------------------------ *)
\* the key of the deployment
ConfiguredKey == KeyOf(1)

ServerStart ==
    /\ plaid_items = {}
    /\ reqs = [s \in Slots |-> Idle]
    /\ resp = NoResp
    /\ lastLink = [i \in Items |-> NoLink]
    /\ started = 0

\* the string encrypt returned has not been changed
Untouched == [kind |-> "none", at |-> 0]

\* no component of the page is mounted
Unmounted == [pc |-> "unmounted"]

PageOff ==
    /\ auth = Unmounted
    /\ home = Unmounted
    /\ link = Unmounted
    /\ txlist = Unmounted

CodecOff ==
    /\ cpc = "off"
    /\ cplain = <<>>
    /\ cblob = <<>>
    /\ cout = [ok |-> FALSE, value |-> <<>>]
    /\ ctamper = Untouched
    /\ encoded = <<>>
    /\ PageOff

Init ==
    /\ encryptionKey = ConfiguredKey
    /\ KeyGuard(encryptionKey)
    /\ ServerStart
    /\ CodecOff

Next ==
    \/ \E s \in Slots, caller \in Callers, t \in BodyTokens, parses \in BOOLEAN :
          ExchangeStart(s, caller, t, parses)
    \/ \E s \in Slots : ExchangePlaid(s)
    \/ \E s \in Slots : ExchangeUpsert(s)
    \/ \E s \in Slots, t \in BodyTokens, u \in Users \cup {""}, parses \in BOOLEAN :
          InsertStart(s, t, u, parses)
    \/ \E s \in Slots : InsertPlaid(s)
    \/ \E s \in Slots : InsertStore(s)
    \/ \E s \in Slots, caller \in Callers, i \in Items \cup {""}, parses \in BOOLEAN :
          GetTxStart(s, caller, i, parses)
    \/ \E s \in Slots : GetTxLookup(s)
    \/ \E s \in Slots : GetTxFetch(s)
    \/ \E s \in Slots, caller \in Callers : RefreshStart(s, caller)
    \/ \E s \in Slots : RefreshLookup(s)
    \/ \E s \in Slots : RefreshPlaid(s)

Spec == Init /\ [][Next]_vars

\* the handlers that write the table, on their own
WriteNext ==
    \/ \E s \in Slots, caller \in Callers, t \in BodyTokens, parses \in BOOLEAN :
          ExchangeStart(s, caller, t, parses)
    \/ \E s \in Slots : ExchangePlaid(s)
    \/ \E s \in Slots : ExchangeUpsert(s)
    \/ \E s \in Slots, t \in BodyTokens, u \in Users \cup {""}, parses \in BOOLEAN :
          InsertStart(s, t, u, parses)
    \/ \E s \in Slots : InsertPlaid(s)
    \/ \E s \in Slots : InsertStore(s)

WriteSpec == Init /\ [][WriteNext]_vars

(* ------------------------------------------------------------------ *)
(* The handlers that read the table, started on the table an earlier   *)
(* deployment left                                                     *)
(* ------------------------------------------------------------------ *)
\* encrypt() as the process whose ENCRYPTION_KEY was key ran it
SealedWith(key, plain, iv) ==
    LET enc == CipherBytes(key, iv, Utf8Encode(plain))
        authTag == AuthTagOf(key, iv, enc)
    IN  ToHex(iv \o authTag \o enc)

\* u1 linked i1 when the key was wasKey, which may not be the key of this
\* process; u2 linked i2 under the key of this process
FetchInit ==
    /\ encryptionKey \in Keys
    /\ KeyGuard(encryptionKey)
    /\ \E wasKey \in Keys, iv \in Nonces :
          plaid_items =
              {[user_id |-> "u1", item_id |-> "i1",
                access_token |-> SealedWith(wasKey, CredA1, iv), created_at |-> 1],
               [user_id |-> "u2", item_id |-> "i2",
                access_token |-> SealedWith(encryptionKey, CredA3, iv), created_at |-> 2]}
    /\ reqs = [s \in Slots |-> Idle]
    /\ resp = NoResp
    /\ lastLink = [i \in Items |-> NoLink]
    /\ started = 0
    /\ CodecOff

FetchNext ==
    \/ \E s \in Slots, caller \in Callers, i \in Items \cup {""}, parses \in BOOLEAN :
          GetTxStart(s, caller, i, parses)
    \/ \E s \in Slots : GetTxLookup(s)
    \/ \E s \in Slots : GetTxFetch(s)
    \/ \E s \in Slots, caller \in Callers : RefreshStart(s, caller)
    \/ \E s \in Slots : RefreshLookup(s)
    \/ \E s \in Slots : RefreshPlaid(s)

FetchSpec == FetchInit /\ [][FetchNext]_vars

(* ------------------------------------------------------------------ *)
(* The item lookup, on a table that earlier exchanges filled           *)
(* ------------------------------------------------------------------ *)
\* the row an exchange of user for item stored as the at-th row of the table
StoredRow(user, item, plain, at) ==
    [user_id |-> user, item_id |-> item,
     access_token |-> SealedWith(ConfiguredKey, plain, NonceOf(1)), created_at |-> at]

\* the tables the handlers start on: empty; u1 linked i1 and then i2; u1
\* linked i2 and then i1; u1 linked i1 and then u2 linked i2
StoredTables ==
    {{},
     {StoredRow("u1", "i1", CredA1, 1), StoredRow("u1", "i2", CredA3, 2)},
     {StoredRow("u1", "i1", CredA1, 2), StoredRow("u1", "i2", CredA3, 1)},
     {StoredRow("u1", "i1", CredA1, 1), StoredRow("u2", "i2", CredA3, 2)}}

\* what the exchange that stored row wrote
LinkOf(row) ==
    [userId |-> row.user_id,
     access_token |-> IF row.item_id = "i1" THEN CredA1 ELSE CredA3,
     encrypted |-> row.access_token,
     caller |-> row.user_id]

\* the server on a table of StoredTables
StoredStart ==
    /\ encryptionKey = ConfiguredKey
    /\ KeyGuard(encryptionKey)
    /\ plaid_items \in StoredTables
    /\ reqs = [s \in Slots |-> Idle]
    /\ resp = NoResp
    /\ lastLink = [i \in Items |->
                      IF \E row \in plaid_items : row.item_id = i
                      THEN LinkOf(CHOOSE row \in plaid_items : row.item_id = i)
                      ELSE NoLink]
    /\ started = 0

ItemsInit ==
    /\ StoredStart
    /\ CodecOff

ItemsNext ==
    \/ \E s \in Slots, caller \in Callers : ItemsStart(s, caller)
    \/ \E s \in Slots : ItemsLookup(s)
    \/ \E s \in Slots, caller \in Callers, t \in BodyTokens, parses \in BOOLEAN :
          ExchangeStart(s, caller, t, parses)
    \/ \E s \in Slots : ExchangePlaid(s)
    \/ \E s \in Slots : ExchangeUpsert(s)

ItemsSpec == ItemsInit /\ [][ItemsNext]_vars

(* ------------------------------------------------------------------ *)
(* The Home page of a signed-in user, beside the server                *)
(* ------------------------------------------------------------------ *)
\* the user of the session the browser holds
PageUser == "u1"

CodecIdle ==
    /\ cpc = "off"
    /\ cplain = <<>>
    /\ cblob = <<>>
    /\ cout = [ok |-> FALSE, value |-> <<>>]
    /\ ctamper = Untouched
    /\ encoded = <<>>

\* useState of Home, with isAuthLoading false and a user at the first effect:
\* waiting counts the runs of fetchItemId that await their response, linking
\* says that handleSuccess of the connector awaits the exchange, and dropped
\* remembers the item of the last handleDisconnect ("" is null)
HomeMounted ==
    [pc |-> "mounted", currentItemId |-> "", isCheckingItemId |-> TRUE,
     fetchError |-> "", waiting |-> 0, linking |-> FALSE, dropped |-> ""]

\* the page once the fetchItemId of its first effect was answered from rows
HomeLoaded(rows) ==
    [HomeMounted EXCEPT !.currentItemId = FindLatest(rows, PageUser).data.item_id,
                        !.isCheckingItemId = FALSE]

HomeInit ==
    /\ StoredStart
    /\ CodecIdle
    /\ auth = Unmounted
    /\ link = Unmounted
    /\ txlist = Unmounted
    /\ home \in {HomeMounted, HomeLoaded(plaid_items)}

\* everything but the page and the response on its way to it
BesidePage ==
    <<encryptionKey, plaid_items, reqs, lastLink, started, codecVars, auth, link, txlist>>

\* the effect on [user, isAuthLoading] with a user: fetchItemId up to its
\* await of fetch
HomeFetchItemId ==
    /\ home.pc = "mounted"
    /\ home.waiting < MaxInFlight
    /\ home' = [home EXCEPT !.isCheckingItemId = TRUE, !.fetchError = "",
                            !.waiting = @ + 1]
    /\ UNCHANGED <<resp, BesidePage>>

\* fetchItemId from the response on: the item_id of a success, the catch
\* block for any other response, and the finally block
HomeItemsAnswer ==
    /\ home.pc = "mounted"
    /\ home.waiting > 0
    /\ resp.kind = "plaid_items"
    /\ resp.caller = PageUser
    /\ home' = IF resp.status = 200 /\ resp.success
               THEN [home EXCEPT !.currentItemId = resp.body_item_id,
                                 !.isCheckingItemId = FALSE, !.waiting = @ - 1]
               ELSE [home EXCEPT !.currentItemId = "",
                                 !.fetchError = "Failed to load account connection status",
                                 !.isCheckingItemId = FALSE, !.waiting = @ - 1]
    /\ resp' = NoResp
    /\ UNCHANGED BesidePage

\* fetchItemId when fetch rejects
HomeItemsFails ==
    /\ home.pc = "mounted"
    /\ home.waiting > 0
    /\ home' = [home EXCEPT !.currentItemId = "",
                            !.fetchError = "Failed to load account connection status",
                            !.isCheckingItemId = FALSE, !.waiting = @ - 1]
    /\ UNCHANGED <<resp, BesidePage>>

\* the connector is rendered and Link completes: handleSuccess up to its
\* await of fetch
HomeLinkStart ==
    /\ home.pc = "mounted"
    /\ ~ home.isCheckingItemId
    /\ home.currentItemId = ""
    /\ home.fetchError = ""
    /\ ~ home.linking
    /\ home' = [home EXCEPT !.linking = TRUE]
    /\ UNCHANGED <<resp, BesidePage>>

\* handlePlaidSuccess, called by handleSuccess with the item_id of the
\* exchange
HomePlaidSuccess ==
    /\ home.pc = "mounted"
    /\ home.linking
    /\ resp.kind = "exchange"
    /\ resp.caller = PageUser
    /\ resp.status = 200
    /\ resp.success
    /\ resp.body_item_id # ""
    /\ home' = [home EXCEPT !.currentItemId = resp.body_item_id, !.fetchError = "",
                            !.linking = FALSE]
    /\ resp' = NoResp
    /\ UNCHANGED BesidePage

\* handleSuccess ends in its catch block: Home is not called
HomeLinkFails ==
    /\ home.pc = "mounted"
    /\ home.linking
    /\ home' = [home EXCEPT !.linking = FALSE]
    /\ UNCHANGED <<resp, BesidePage>>

\* a plausible slip: the handler also puts the page back into its check
HomeDisconnectRechecks ==
    /\ home.pc = "mounted"
    /\ ~ home.isCheckingItemId
    /\ home.currentItemId # ""
    /\ home' = [home EXCEPT !.dropped = home.currentItemId, !.currentItemId = "",
                            !.fetchError = "", !.isCheckingItemId = TRUE]
    /\ UNCHANGED <<resp, BesidePage>>

\* handleDisconnect, behind the button that is rendered with the list
HomeDisconnect ==
    /\ home.pc = "mounted"
    /\ ~ home.isCheckingItemId
    /\ home.currentItemId # ""
    /\ home' = [home EXCEPT !.dropped = home.currentItemId, !.currentItemId = "",
                            !.fetchError = ""]
    /\ UNCHANGED <<resp, BesidePage>>

\* the server takes the requests of this specification one at a time (they
\* overlap in Spec, WriteSpec and ItemsSpec)
PageSlots == {"s1"}

HomeNext ==
    \/ HomeFetchItemId
    \/ HomeItemsAnswer
    \/ HomeItemsFails
    \/ HomeLinkStart
    \/ HomePlaidSuccess
    \/ HomeLinkFails
    \/ HomeDisconnect
    \/ \E s \in PageSlots : ItemsStart(s, PageUser)
    \/ \E s \in PageSlots : ItemsLookup(s)
    \/ \E s \in PageSlots, caller \in Users, t \in DOMAIN ExchangeTable :
          ExchangeStart(s, caller, t, TRUE)
    \/ \E s \in PageSlots : ExchangePlaid(s)
    \/ \E s \in PageSlots : ExchangeUpsert(s)
    \/ \E s \in PageSlots, i \in Items : GetTxStart(s, PageUser, i, TRUE)
    \/ \E s \in PageSlots : GetTxLookup(s)
    \/ \E s \in PageSlots : GetTxFetch(s)
    \/ \E s \in PageSlots : RefreshStart(s, PageUser)
    \/ \E s \in PageSlots : RefreshLookup(s)
    \/ \E s \in PageSlots : RefreshPlaid(s)

HomeSpec == HomeInit /\ [][HomeNext]_vars

(* ------------------------------------------------------------------ *)
(* PlaidLinkConnector: handleSuccess                                   *)
(* ------------------------------------------------------------------ *)
\* what JSON the body of an exchange-token response may hold: success,
\* item_id and message, each possibly missing ("" for a missing string)
LinkBodies ==
    [json : {TRUE}, success : BOOLEAN, item_id : {"", "i1"},
     message : {"", "Stored successfully"}]

\* a body that res.json() cannot parse
NotJson == [json |-> FALSE, success |-> FALSE, item_id |-> "", message |-> ""]

\* how await fetch ends: it rejects, or it resolves with a response whose
\* ok says that the status is 2xx
FetchRejects == [settled |-> "rejected", ok |-> FALSE, body |-> NotJson]
LinkOutcomes ==
    {FetchRejects}
        \cup [settled : {"resolved"}, ok : BOOLEAN, body : LinkBodies \cup {NotJson}]

\* no response, and no finished run
NoOutcome == [settled |-> "none", ok |-> FALSE, body |-> NotJson]
\* the run that ended at the user check
NoUserRun == [settled |-> "no user", ok |-> FALSE, body |-> NotJson]

\* a plausible slip: item_id is not tested
AcceptedWithoutItem(res, data) == res.ok /\ data.success

\* the test before onConnectionSuccess, negated in the source
Accepted(res, data) == res.ok /\ data.success /\ data.item_id # ""

\* useState of the connector, with the user of useAuth; res is the response
\* handleSuccess holds, runs the number of its calls, notified the arguments
\* of the calls of onConnectionSuccess in the last run, and last how the last
\* run ended
LinkMounted(user) ==
    [pc |-> "idle", mounted |-> TRUE, user |-> user, exchangeLoading |-> FALSE,
     exchangeSuccess |-> FALSE, apiError |-> "", res |-> NoOutcome, runs |-> 0,
     notified |-> <<>>, last |-> NoOutcome]

LinkInit ==
    /\ encryptionKey = ConfiguredKey
    /\ ServerStart
    /\ CodecIdle
    /\ auth = Unmounted
    /\ home = Unmounted
    /\ txlist = Unmounted
    /\ link \in {LinkMounted(user) : user \in {PageUser, ""}}

BesideLink == <<encryptionKey, serverVars, codecVars, auth, home, txlist>>

\* the state setters of a component do nothing once it is unmounted
LinkSet(l, changed) == IF l.mounted THEN changed ELSE l

\* useAuth reports another user, or none
LinkUserChanges(user) ==
    /\ link.mounted
    /\ link.user # user
    /\ link' = [link EXCEPT !.user = user]
    /\ UNCHANGED BesideLink

\* Home stops rendering the connector: its state is gone, a run of
\* handleSuccess that awaits goes on
LinkUnmounts ==
    /\ link.mounted
    /\ link' = [link EXCEPT !.mounted = FALSE, !.exchangeLoading = FALSE,
                            !.exchangeSuccess = FALSE, !.apiError = ""]
    /\ UNCHANGED BesideLink

\* Link calls onSuccess (its button is disabled while exchangeLoading):
\* handleSuccess up to await fetch
HandleSuccessStart ==
    /\ link.mounted
    /\ link.pc = "idle"
    /\ ~ link.exchangeLoading
    /\ link.runs < MaxLinkRuns
    /\ link' = IF link.user = ""
               THEN [link EXCEPT !.apiError = "No user session", !.runs = @ + 1,
                                 !.notified = <<>>, !.last = NoUserRun]
               ELSE [link EXCEPT !.pc = "awaiting", !.exchangeLoading = TRUE,
                                 !.exchangeSuccess = FALSE, !.apiError = "",
                                 !.runs = @ + 1, !.notified = <<>>, !.last = NoOutcome]
    /\ UNCHANGED BesideLink

\* the catch block and the finally block
LinkCaught(l, message, outcome) ==
    [LinkSet(l, [l EXCEPT !.apiError = message, !.exchangeLoading = FALSE])
        EXCEPT !.pc = "idle", !.res = NoOutcome, !.last = outcome]

\* await fetch ends
HandleSuccessFetched(outcome) ==
    /\ link.pc = "awaiting"
    /\ link' = IF outcome.settled = "rejected"
               THEN LinkCaught(link, "Failed to fetch", outcome)
               ELSE [link EXCEPT !.pc = "reading", !.res = outcome]
    /\ UNCHANGED BesideLink

\* await res.json() ends, then the rest of handleSuccess
HandleSuccessRead ==
    /\ link.pc = "reading"
    /\ LET res == link.res
           data == res.body
       IN  link' =
              IF ~ data.json
              THEN LinkCaught(link, "Unexpected token", res)
              ELSE IF ~ Accepted(res, data)
              THEN LinkCaught(link,
                              IF data.message # "" THEN data.message
                              ELSE "Token exchange failed", res)
              ELSE [LinkSet(link, [link EXCEPT !.exchangeSuccess = TRUE,
                                               !.exchangeLoading = FALSE])
                       EXCEPT !.pc = "idle", !.res = NoOutcome, !.last = res,
                              !.notified = Append(link.notified, data.item_id)]
    /\ UNCHANGED BesideLink

LinkNext ==
    \/ \E user \in {PageUser, ""} : LinkUserChanges(user)
    \/ LinkUnmounts
    \/ HandleSuccessStart
    \/ \E outcome \in LinkOutcomes : HandleSuccessFetched(outcome)
    \/ HandleSuccessRead

LinkSpec == LinkInit /\ [][LinkNext]_vars

\* a promise that was awaited settles, and the continuation then runs
LinkFairSpec ==
    /\ LinkSpec
    /\ WF_vars(\E outcome \in LinkOutcomes : HandleSuccessFetched(outcome))
    /\ WF_vars(HandleSuccessRead)

(* ------------------------------------------------------------------ *)
(* TransactionList                                                     *)
(* ------------------------------------------------------------------ *)
\* no request of the component awaits its response
NoneInFlight == [i \in Items |-> 0]

\* the effect on [itemId, isAuthLoading], up to the await of fetch when it
\* calls fetchTransactions; transactions, accounts and error hold the item
\* they were fetched for ("" for an empty list and for null), inFlight the
\* number of requests that await their response, by item
TxEffect(l) ==
    IF l.isAuthLoading \/ l.itemId = ""
    THEN [l EXCEPT !.transactions = "", !.error = "", !.isLoading = FALSE]
    ELSE [l EXCEPT !.isLoading = TRUE, !.error = "", !.transactions = "",
                   !.accounts = "", !.inFlight[l.itemId] = @ + 1]

\* useState of the component, then its first effect
TxMounted(itemId, isAuthLoading) ==
    TxEffect([pc |-> "mounted", itemId |-> itemId, isAuthLoading |-> isAuthLoading,
              transactions |-> "", accounts |-> "", isLoading |-> FALSE, error |-> "",
              inFlight |-> NoneInFlight])

TxInit ==
    /\ encryptionKey = ConfiguredKey
    /\ ServerStart
    /\ CodecIdle
    /\ auth = Unmounted
    /\ home = Unmounted
    /\ link = Unmounted
    /\ txlist \in {TxMounted(itemId, isAuthLoading) :
                       itemId \in Items \cup {""}, isAuthLoading \in BOOLEAN}

BesideTx == <<encryptionKey, serverVars, codecVars, auth, home, link>>

\* requests in flight
InFlight(l) == l.inFlight["i1"] + l.inFlight["i2"]

\* the parent renders the component with another itemId, or useAuth reports
\* another isLoading: the effect runs again
TxPropsChange(itemId, isAuthLoading) ==
    /\ txlist.pc = "mounted"
    /\ <<itemId, isAuthLoading>> # <<txlist.itemId, txlist.isAuthLoading>>
    /\ (isAuthLoading \/ itemId = "") \/ InFlight(txlist) < MaxInFlight
    /\ txlist' = TxEffect([txlist EXCEPT !.itemId = itemId,
                                         !.isAuthLoading = isAuthLoading])
    /\ UNCHANGED BesideTx

\* fetchTransactions for item from its response on: ok with success true
\* and the transactions and accounts of item
FetchTransactionsDone(item) ==
    /\ txlist.pc = "mounted"
    /\ txlist.inFlight[item] > 0
    /\ txlist' = [txlist EXCEPT !.transactions = item, !.accounts = item,
                                !.isLoading = FALSE, !.inFlight[item] = @ - 1]
    /\ UNCHANGED BesideTx

\* fetchTransactions for item when fetch or response.json() rejects, the
\* response is not ok or success is false: catch and finally
FetchTransactionsFails(item) ==
    /\ txlist.pc = "mounted"
    /\ txlist.inFlight[item] > 0
    /\ txlist' = [txlist EXCEPT !.error = item, !.transactions = "",
                                !.isLoading = FALSE, !.inFlight[item] = @ - 1]
    /\ UNCHANGED BesideTx

TxNext ==
    \/ \E itemId \in Items \cup {""}, isAuthLoading \in BOOLEAN :
          TxPropsChange(itemId, isAuthLoading)
    \/ \E item \in Items : FetchTransactionsDone(item)
    \/ \E item \in Items : FetchTransactionsFails(item)

TxSpec == TxInit /\ [][TxNext]_vars

(* ------------------------------------------------------------------ *)
(* AuthProvider                                                        *)
(* ------------------------------------------------------------------ *)
\* the sessions the identity provider may report, with their users; "" is
\* null, and a1 and a2 are two sessions of one user
SessionUser == [a1 |-> "u1", a2 |-> "u1", b1 |-> "u2"]
Sessions == DOMAIN SessionUser

\* session?.user ?? null
UserOfSession(session) == IF session = "" THEN "" ELSE SessionUser[session]

\* what the listener of onAuthStateChange is called with
AuthChanges ==
    [event : {"SIGNED_IN", "TOKEN_REFRESHED", "INITIAL_SESSION"}, session : Sessions]
        \cup [event : {"SIGNED_OUT", "INITIAL_SESSION"}, session : {""}]

\* useState of AuthProvider after its effect: getSession is pending and the
\* listener is subscribed; reported is the last session the provider gave
\* ("none" before the first), settled how getSession ended, event the last
\* event of the listener, events their number
AuthMounted ==
    [pc |-> "pending", session |-> "", user |-> "", isLoading |-> TRUE,
     reported |-> "none", settled |-> "", event |-> "", events |-> 0]

AuthInit ==
    /\ encryptionKey = ConfiguredKey
    /\ ServerStart
    /\ CodecIdle
    /\ home = Unmounted
    /\ link = Unmounted
    /\ txlist = Unmounted
    /\ auth = AuthMounted

BesideAuth == <<encryptionKey, serverVars, codecVars, home, link, txlist>>

\* getSession resolves without error: the then callback
GetSessionResolves(session) ==
    /\ auth.pc = "pending"
    /\ auth' = [auth EXCEPT !.pc = "settled", !.session = session,
                            !.user = UserOfSession(session), !.isLoading = FALSE,
                            !.reported = session, !.settled = "session"]
    /\ UNCHANGED BesideAuth

\* a plausible slip: isLoading is set to false only beside the session
GetSessionErrorStaysLoading ==
    /\ auth.pc = "pending"
    /\ auth' = [auth EXCEPT !.pc = "settled", !.settled = "error"]
    /\ UNCHANGED BesideAuth

\* getSession resolves with an error: the then callback
GetSessionError ==
    /\ auth.pc = "pending"
    /\ auth' = [auth EXCEPT !.pc = "settled", !.isLoading = FALSE, !.settled = "error"]
    /\ UNCHANGED BesideAuth

\* getSession rejects: the catch callback
GetSessionRejects ==
    /\ auth.pc = "pending"
    /\ auth' = [auth EXCEPT !.pc = "settled", !.isLoading = FALSE,
                            !.settled = "rejected"]
    /\ UNCHANGED BesideAuth

\* the listener of onAuthStateChange
AuthStateChange(change) ==
    /\ auth.pc \in {"pending", "settled"}
    /\ auth.events < MaxAuthEvents
    /\ auth' = [auth EXCEPT !.session = change.session,
                            !.user = UserOfSession(change.session),
                            !.reported = change.session, !.event = change.event,
                            !.events = @ + 1]
    /\ UNCHANGED BesideAuth

AuthNext ==
    \/ \E session \in Sessions \cup {""} : GetSessionResolves(session)
    \/ GetSessionError
    \/ GetSessionRejects
    \/ \E change \in AuthChanges : AuthStateChange(change)

AuthSpec == AuthInit /\ [][AuthNext]_vars

\* the promise of getSession settles, and its callback then runs
GetSessionSettles ==
    \/ \E session \in Sessions \cup {""} : GetSessionResolves(session)
    \/ GetSessionError
    \/ GetSessionRejects

AuthFairSpec == AuthSpec /\ WF_vars(GetSessionSettles)

(* ------------------------------------------------------------------ *)
(* The modules that hold the codec, loaded under any ENCRYPTION_KEY    *)
(* ------------------------------------------------------------------ *)
\* the values ENCRYPTION_KEY may be set to: 32 bytes in base64, the same
\* without its padding, 31 bytes in base64, 32 bytes written in hex (which
\* read as base64 are 48 bytes), and the empty string
KeyTexts ==
    {Base64Encode(KeyOf(1)),
     BeforePadding(Base64Encode(KeyOf(1))),
     Base64Encode(SubSeq(KeyOf(1), 1, KEY_LENGTH - 1)),
     ToHex(KeyOf(1)),
     <<>>}

\* the routes whose module holds the codec: exchange-token (either
\* variant) and get-transactions
CodecRoutes == {"exchange", "exchange_insert", "get_transactions"}

\* throw new Error('ENCRYPTION_KEY must be 32 bytes ..') while the module loads
KeyLengthError ==
    [kind |-> "module", status |-> 0, error_code |-> "",
     error_message |-> "ENCRYPTION_KEY must be 32 bytes"]

BootInit ==
    /\ encryptionKey \in {Base64Decode(text) : text \in KeyTexts}
    /\ ServerStart
    /\ CodecOff

\* a request for a route whose module threw while it loaded: the handler
\* is not there to be called, the framework answers 500
RouteLoadFails(s, route) ==
    /\ ~ KeyGuard(encryptionKey)
    /\ reqs[s].kind = "idle"
    /\ started < MaxStarted
    /\ started' = started + 1
    /\ Return(s, Uncaught([Idle EXCEPT !.kind = route], KeyLengthError))
    /\ UNCHANGED <<encryptionKey, plaid_items, lastLink, codecVars, pageVars>>

\* a request for exchange-token, whose module loaded
ServeExchange(s, caller, public_token, parses) ==
    /\ KeyGuard(encryptionKey)
    /\ ExchangeStart(s, caller, public_token, parses)

\* a request for the insert variant, whose module loaded
ServeInsert(s, public_token, user_id, parses) ==
    /\ KeyGuard(encryptionKey)
    /\ InsertStart(s, public_token, user_id, parses)

\* a request for get-transactions, whose module loaded
ServeGetTx(s, caller, item_id, parses) ==
    /\ KeyGuard(encryptionKey)
    /\ GetTxStart(s, caller, item_id, parses)

BootNext ==
    \/ \E s \in Slots, route \in CodecRoutes : RouteLoadFails(s, route)
    \/ \E s \in Slots, caller \in Callers, t \in BodyTokens, parses \in BOOLEAN :
          ServeExchange(s, caller, t, parses)
    \/ \E s \in Slots : ExchangePlaid(s)
    \/ \E s \in Slots : ExchangeUpsert(s)
    \/ \E s \in Slots, t \in BodyTokens, u \in Users \cup {""}, parses \in BOOLEAN :
          ServeInsert(s, t, u, parses)
    \/ \E s \in Slots : InsertPlaid(s)
    \/ \E s \in Slots : InsertStore(s)
    \/ \E s \in Slots, caller \in Callers, i \in Items \cup {""}, parses \in BOOLEAN :
          ServeGetTx(s, caller, i, parses)
    \/ \E s \in Slots : GetTxLookup(s)
    \/ \E s \in Slots : GetTxFetch(s)

BootSpec == BootInit /\ [][BootNext]_vars

(* ------------------------------------------------------------------ *)
(* The codec on its own: encrypt a plaintext, decrypt what came out    *)
(* ------------------------------------------------------------------ *)
\* code units a plaintext is made of: 'a', e-acute, the euro sign, and the
\* two halves of the surrogate pair of U+1F600
CodeUnits == {97, 233, 8364, 55357, 56832}

Plaintexts == UNION {[1..n -> CodeUnits] : n \in 0..MaxPlainLen}

CodecInit ==
    /\ encryptionKey \in Keys
    /\ KeyGuard(encryptionKey)
    /\ ServerStart
    /\ cpc = "start"
    /\ cplain \in Plaintexts
    /\ cblob = <<>>
    /\ cout = [ok |-> FALSE, value |-> <<>>]
    /\ ctamper = Untouched
    /\ encoded = <<>>
    /\ PageOff

\* encrypt() of exchange-token
CodecEncrypt ==
    /\ cpc = "start"
    /\ \E iv \in Nonces : cblob' = encrypt(cplain, iv)
    /\ cpc' = "encrypted"
    /\ UNCHANGED <<encryptionKey, serverVars, cplain, cout, ctamper, encoded, pageVars>>

\* encrypt() of the insert variant
CodecEncryptInsert ==
    /\ cpc = "start"
    /\ \E iv \in Nonces : cblob' = encryptInsert(cplain, iv)
    /\ cpc' = "encrypted"
    /\ UNCHANGED <<encryptionKey, serverVars, cplain, cout, ctamper, encoded, pageVars>>

\* decrypt() of get-transactions
CodecDecrypt ==
    /\ cpc = "encrypted"
    /\ cout' = decrypt(cblob)
    /\ cpc' = "decrypted"
    /\ UNCHANGED <<encryptionKey, serverVars, cplain, cblob, ctamper, encoded, pageVars>>

CodecNext == CodecEncrypt \/ CodecEncryptInsert \/ CodecDecrypt

CodecSpec == CodecInit /\ [][CodecNext]_vars

(* ------------------------------------------------------------------ *)
(* The codec on a stored string that was changed after encrypt         *)
(* ------------------------------------------------------------------ *)
\* the secrets the changed strings are made from: the empty string, an
\* access token, a two-byte character
TamperPlaintexts == {<<>>, CredA1, <<233>>}

\* what one character c of a stored string may be replaced by: the same hex
\* digit in upper case, the next hex digit, and 'z', which is no hex digit
Replacements(c) ==
    {IF c >= 97 /\ c <= 102 THEN c - 32 ELSE c, HexDigit((HexVal(c) + 1) % 16), 122}
        \ {c}

TamperInit ==
    /\ encryptionKey \in Keys
    /\ KeyGuard(encryptionKey)
    /\ ServerStart
    /\ cpc = "start"
    /\ cplain \in TamperPlaintexts
    /\ cblob = <<>>
    /\ cout = [ok |-> FALSE, value |-> <<>>]
    /\ ctamper = Untouched
    /\ encoded = <<>>
    /\ PageOff

\* one character of the stored string is replaced
CodecCorrupt ==
    /\ cpc = "encrypted"
    /\ \E at \in 1..Len(cblob) : \E c \in Replacements(cblob[at]) :
          /\ cblob' = [cblob EXCEPT ![at] = c]
          /\ ctamper' = [kind |-> IF HexVal(c) < 0 THEN "not hex"
                                  ELSE IF HexVal(c) = HexVal(cblob[at]) THEN "case"
                                  ELSE "digit",
                         at |-> at]
    /\ cpc' = "tampered"
    /\ UNCHANGED <<encryptionKey, serverVars, cplain, cout, encoded, pageVars>>

\* the stored string loses its end
CodecTruncate ==
    /\ cpc = "encrypted"
    /\ \E n \in 0..(Len(cblob) - 1) :
          /\ cblob' = SubSeq(cblob, 1, n)
          /\ ctamper' = [kind |-> "cut", at |-> n]
    /\ cpc' = "tampered"
    /\ UNCHANGED <<encryptionKey, serverVars, cplain, cout, encoded, pageVars>>

\* decrypt() of get-transactions on the changed string
CodecOpen ==
    /\ cpc = "tampered"
    /\ cout' = decrypt(cblob)
    /\ cpc' = "opened"
    /\ UNCHANGED <<encryptionKey, serverVars, cplain, cblob, ctamper, encoded, pageVars>>

TamperNext ==
    CodecEncrypt \/ CodecEncryptInsert \/ CodecCorrupt \/ CodecTruncate \/ CodecOpen

TamperSpec == TamperInit /\ [][TamperNext]_vars

(* ------------------------------------------------------------------ *)
(* The codec called several times under one key                        *)
(* ------------------------------------------------------------------ *)
NonceInit ==
    /\ encryptionKey \in Keys
    /\ KeyGuard(encryptionKey)
    /\ ServerStart
    /\ cpc = "encoding"
    /\ cplain = <<>>
    /\ cblob = <<>>
    /\ cout = [ok |-> FALSE, value |-> <<>>]
    /\ ctamper = Untouched
    /\ encoded = <<>>
    /\ PageOff

\* one more call of encrypt() of exchange-token; iv is what
\* crypto.randomBytes returned to it
EncodeCall ==
    /\ cpc = "encoding"
    /\ Len(encoded) < MaxEncodes
    /\ \E plain \in TamperPlaintexts, iv \in Nonces :
          encoded' = Append(encoded,
                            [plain |-> plain, iv |-> iv, out |-> encrypt(plain, iv)])
    /\ UNCHANGED <<encryptionKey, serverVars, cpc, cplain, cblob, cout, ctamper,
                   pageVars>>

\* one more call of encrypt() of the insert variant
EncodeCallInsert ==
    /\ cpc = "encoding"
    /\ Len(encoded) < MaxEncodes
    /\ \E plain \in TamperPlaintexts, iv \in Nonces :
          encoded' = Append(encoded,
                            [plain |-> plain, iv |-> iv,
                             out |-> encryptInsert(plain, iv)])
    /\ UNCHANGED <<encryptionKey, serverVars, cpc, cplain, cblob, cout, ctamper,
                   pageVars>>

NonceNext == EncodeCall \/ EncodeCallInsert

NonceSpec == NonceInit /\ [][NonceNext]_vars

(* ------------------------------------------------------------------ *)
(* Properties                                                          *)
(* ------------------------------------------------------------------ *)
RowsOf(i) == {row \in plaid_items : row.item_id = i}
ExchangeKinds == {"exchange", "exchange_insert"}
FetchKinds == {"get_transactions", "refresh"}

\* C1: a get-transactions request for an item that is stored under another
\* user ends with the 404 "not found" response (the table itself answering).
C1_ForeignItemIsNotFound ==
    (resp.kind = "get_transactions" /\ resp.foreign /\ resp.dbError # "io")
        => resp.status = 404

\* C2: a request of user U reads, decodes and hands to the aggregation
\* provider only the credential of a row whose user_id was U when the
\* lookup read it; the value the provider gets comes from that row.
C2_NoCrossUserCredentialUse ==
    /\ \A s \in Slots :
          (reqs[s].kind \in FetchKinds /\ reqs[s].encrypted # <<>>)
              => /\ reqs[s].rowOwner = reqs[s].userId
                 /\ reqs[s].userId = reqs[s].caller
    /\ (resp.kind \in FetchKinds /\ (resp.plaidCalled \/ resp.blobRead # <<>>))
          => /\ resp.rowOwner = resp.userId
             /\ resp.userId = resp.caller
             /\ resp.caller \in Users
    /\ resp.plaidCalled
          => resp.plaidToken \in {resp.blobRead, decrypt(resp.blobRead).value}

\* C2 witness: a get-transactions request of a user reached the provider
\* with the credential of that user's own row.
C2_Witness ==
    /\ resp.kind = "get_transactions"
    /\ resp.plaidCalled
    /\ resp.rowOwner = resp.caller
    /\ resp.blobRead # <<>>

\* C3: after exchanges that resolve to the same item_id the table holds one
\* row for it, with the owner and the credential of the latest one, and an
\* exchange never fails on the item_id being there already.
C3_UpsertIdempotent ==
    /\ \A i \in Items :
          lastLink[i] # NoLink
              => /\ Cardinality(RowsOf(i)) = 1
                 /\ \A row \in RowsOf(i) :
                       /\ row.user_id = lastLink[i].userId
                       /\ row.access_token = lastLink[i].encrypted
    /\ ~ (resp.kind \in ExchangeKinds /\ resp.dbError = "23505")

\* C4: whenever a handler calls the aggregation provider with a credential
\* read from the table, the access token it passes is the decoded blob (the
\* credential the exchange returned), never the stored blob.
C4_FetchDecryptsBeforeUse ==
    (resp.kind \in FetchKinds /\ resp.plaidCalled)
        => /\ resp.plaidToken # resp.blobRead
           /\ decrypt(resp.blobRead).ok
           /\ resp.plaidToken = decrypt(resp.blobRead).value

\* a string without an unpaired surrogate (String.prototype.isWellFormed)
RECURSIVE WellFormed(_)
WellFormed(str) ==
    IF str = <<>> THEN TRUE
    ELSE IF IsHighSurrogate(str[1])
         THEN /\ Len(str) >= 2
              /\ IsLowSurrogate(str[2])
              /\ WellFormed(SubSeq(str, 3, Len(str)))
    ELSE ~ IsLowSurrogate(str[1]) /\ WellFormed(Tail(str))

C6_EndToEnd ==
    /\ \A s \in Slots :
          (reqs[s].kind = "get_transactions" /\ reqs[s].pc = "fetch")
              => (reqs[s].linked # <<>> /\ reqs[s].access_token = reqs[s].linked)
    /\ (resp.kind = "get_transactions" /\ resp.linked # <<>> /\ resp.dbError # "io")
          => /\ resp.plaidCalled
             /\ resp.decoded
             /\ resp.plaidToken = resp.linked

\* C6 witness: u1 linked i1 with pub1 and then fetched it; the provider got "a1".
C6_Witness ==
    /\ resp.kind = "get_transactions"
    /\ resp.status = 200
    /\ resp.caller = "u1"
    /\ resp.item_id = "i1"
    /\ resp.linked = CredA1
    /\ resp.plaidToken = CredA1

\* C7: the table never holds two rows with the same item_id.
C7_ItemIdUnique ==
    \A r1 \in plaid_items, r2 \in plaid_items : r1.item_id = r2.item_id => r1 = r2

\* C7 witness: an exchange stored an item that the table already held.
C7_Witness ==
    /\ resp.kind \in ExchangeKinds
    /\ resp.wrote
    /\ resp.prevOwner # ""
    /\ Cardinality(RowsOf(resp.item_id)) = 1

\* C8: every change of the rows of an item is the write of one exchange
\* request: afterwards the item has exactly one row, whose user_id and
\* access_token are both that request's, and that request returns 200.
C8_AtomicUpsert ==
    [][\A i \in Items :
          RowsOf(i)' # RowsOf(i)
              => \E s \in Slots :
                    /\ reqs[s].pc \in {"upsert", "insert"}
                    /\ reqs[s].item_id = i
                    /\ Cardinality(RowsOf(i)') = 1
                    /\ \A row \in RowsOf(i)' :
                          /\ row.user_id = reqs[s].userId
                          /\ row.access_token = reqs[s].encrypted
                    /\ reqs'[s] = Idle
                    /\ resp'.status = 200
                    /\ resp'.userId = reqs[s].userId]_vars

\* C8 witness: two exchanges of different users for one item overlapped;
\* the one that wrote second replaced the row of the first and returned 200.
C8_Witness ==
    /\ resp.kind = "exchange"
    /\ resp.status = 200
    /\ resp.raced
    /\ resp.prevOwner \in Users \ {resp.userId}
    /\ \A row \in RowsOf(resp.item_id) : row.user_id = resp.userId

\* C9: the access_token column of every row is an envelope (it decrypts to
\* the credential the provider issued for that write), never a credential
\* of the provider as it is.
C9_NeverPlaintext ==
    \A row \in plaid_items :
        LET opened == decrypt(row.access_token)
        IN  /\ row.access_token \notin ProviderCredentials
            /\ row.access_token # lastLink[row.item_id].access_token
            /\ Len(row.access_token) >= (IV_LENGTH + AUTH_TAG_LENGTH) * 2
            /\ opened.ok
            /\ opened.value = lastLink[row.item_id].access_token

\* C9 witness: both items are stored.
C9_Witness ==
    /\ \A i \in Items : RowsOf(i) # {}
    /\ resp.wrote

\* C10: a row is written only for a request with a session, and its
\* user_id is the user the identity provider returned for that session.
C10_OwnerIsAuthenticatedUser ==
    resp.wrote
        => /\ resp.caller \in Users
           /\ resp.userId = resp.caller
           /\ \A row \in RowsOf(resp.item_id) : row.user_id = resp.caller

\* C12: decrypt of a stored string of which one character was replaced, or
\* which lost its end, fails: it returns no plaintext, neither an altered
\* one nor the original.
C12_TamperDetected ==
    cpc = "opened" => ~ cout.ok

\* C11: a request that carries no valid session is answered 401
\* "Unauthorized" with success false, and the handler makes no table read or
\* write and no provider call for it.
C11_UnauthorizedTouchesNothing ==
    /\ \A s \in Slots : reqs[s].kind # "idle" => reqs[s].caller \in Users
    /\ (resp.kind # "none" /\ resp.caller = Anon)
          => /\ resp.status = 401
             /\ resp.message = "Unauthorized"
             /\ ~ resp.success
             /\ resp.calls = NoCalls
             /\ ~ resp.wrote

\* what get-transactions answers to a lookup that finds no row
MissAnswer ==
    [status |-> 500, success |-> FALSE, message |-> "Database error fetching token",
     details |-> NoDetails, dbError |-> "PGRST116"]

\* status and body of a response
AnswerOf(response) ==
    [status |-> response.status, success |-> response.success,
     message |-> response.message, details |-> response.details,
     dbError |-> response.dbError]

\* C13: the answer of get-transactions (status and body) to a request for an
\* item that is stored under another user is the answer to a request for an
\* item that is not stored at all, and neither reaches the provider.
C13_MissIndistinguishable ==
    (/\ resp.kind = "get_transactions"
     /\ resp.calls.lookup = 1
     /\ resp.dbError # "io"
     /\ resp.rowOwner # resp.userId)
        => /\ AnswerOf(resp) = MissAnswer
           /\ resp.calls.fetch = 0
           /\ ~ resp.plaidCalled

\* C13 witness: a request for an item of another user got that answer.
C13_Witness ==
    /\ resp.kind = "get_transactions"
    /\ resp.foreign
    /\ resp.calls.lookup = 1
    /\ AnswerOf(resp) = MissAnswer

\* C14: every request ends with a response of the handler; a failure gives
\* success false with a message and never leaves the handler as an
\* exception, and success is true only with status 200.
C14_ErrorsTranslated ==
    resp.kind # "none"
        => /\ ~ resp.uncaught
           /\ resp.success => resp.status = 200
           /\ resp.status # 200 => (~ resp.success /\ resp.message # "")

\* C15: when the exchange succeeded and the table write reports an error,
\* the request ends with 500 and success false, the table is as it was
\* before the step, and the provider was called once, for the exchange only.
C15_PersistenceFailure ==
    [][(resp'.kind \in ExchangeKinds /\ resp'.dbError # "none")
          => /\ resp'.status = 500
             /\ ~ resp'.success
             /\ ~ resp'.wrote
             /\ plaid_items' = plaid_items
             /\ resp'.calls = [NoCalls EXCEPT !.exchange = 1, !.store = 1]]_vars

\* C15 witness: the write of an exchange failed and the table holds no row.
C15_Witness ==
    /\ resp.kind = "exchange"
    /\ resp.dbError = "io"
    /\ resp.status = 500
    /\ resp.calls.exchange = 1
    /\ plaid_items = {}

\* the handlers of ExchangeAndStore and FetchWithStoredCredential
VaultKinds == {"exchange", "exchange_insert", "get_transactions"}

\* C16: one request calls the provider's exchange at most once, writes the
\* table at most once, looks the table up at most once and calls the
\* provider's fetch at most once, whatever each call returned.
C16_NoRetry ==
    /\ \A s \in Slots :
          reqs[s].kind \in VaultKinds
              => \A c \in DOMAIN NoCalls : reqs[s].calls[c] <= 1
    /\ resp.kind \in VaultKinds
          => \A c \in DOMAIN NoCalls : resp.calls[c] <= 1

\* C16 witness: the fetch of a get-transactions request got no answer and
\* the request ended after that one call.
C16_Witness ==
    /\ resp.kind = "get_transactions"
    /\ resp.thrown = NoAnswer
    /\ resp.calls.lookup = 1
    /\ resp.calls.fetch = 1
    /\ resp.status = 500

\* C17: a request of an authenticated caller (of any caller, for the variant
\* that checks none) whose body has no public_token is answered 400
\* "Missing public_token", with no exchange call and no table write.
C17_MissingPublicToken ==
    /\ \A s \in Slots :
          reqs[s].kind \in ExchangeKinds => reqs[s].public_token # ""
    /\ (/\ resp.kind \in ExchangeKinds
        /\ resp.public_token = ""
        /\ resp.thrown.kind # "syntax"
        /\ (resp.kind = "exchange_insert" \/ resp.caller \in Users))
          => /\ resp.status = 400
             /\ resp.message = "Missing public_token"
             /\ ~ resp.success
             /\ resp.calls = NoCalls
             /\ ~ resp.wrote

\* C17 witness: an authenticated request without public_token got 400.
C17_Witness ==
    /\ resp.kind = "exchange"
    /\ resp.caller \in Users
    /\ resp.public_token = ""
    /\ resp.status = 400

\* C18: when the provider answers the exchange with an error, the response
\* has the provider's status (500 when it gave none) and, as details, the
\* provider's error data unchanged, and nothing was written.
C18_ExchangeUpstreamFailure ==
    (resp.kind \in ExchangeKinds /\ resp.thrown.error_code # "")
        => /\ resp.status = StatusOf(resp.thrown)
           /\ ~ resp.success
           /\ resp.details = [error_code |-> resp.thrown.error_code,
                              error_message |-> resp.thrown.error_message]
           /\ ~ resp.wrote
           /\ resp.calls.store = 0

\* C19: when the stored blob does not decrypt, get-transactions answers 500
\* "Failed to process access token", an answer no other outcome gives, and
\* the provider is not called.
C19_DecodeFailure ==
    /\ \A s \in Slots :
          (reqs[s].kind = "get_transactions" /\ reqs[s].pc = "fetch")
              => decrypt(reqs[s].encrypted).ok
    /\ resp.kind = "get_transactions"
          => IF resp.blobRead # <<>> /\ ~ decrypt(resp.blobRead).ok
             THEN /\ resp.status = 500
                  /\ ~ resp.success
                  /\ resp.message = "Failed to process access token"
                  /\ resp.calls.fetch = 0
                  /\ ~ resp.plaidCalled
             ELSE resp.message # "Failed to process access token"

\* C19 witness: the row of u1 was written under another key and u1's
\* get-transactions ended with the decode failure.
C19_Witness ==
    /\ resp.kind = "get_transactions"
    /\ resp.caller = "u1"
    /\ resp.blobRead # <<>>
    /\ resp.message = "Failed to process access token"

EncodePairs == {<<i, j>> \in (DOMAIN encoded) \X (DOMAIN encoded) : i < j}

C22_KeyLengthGuard ==
    IF Len(encryptionKey) = KEY_LENGTH
    THEN resp.thrown.kind # "module"
    ELSE /\ \A s \in Slots : reqs[s] = Idle
         /\ plaid_items = {}
         /\ resp.kind # "none"
               => /\ resp.kind \in CodecRoutes
                  /\ resp.uncaught
                  /\ resp.thrown = KeyLengthError
                  /\ resp.calls = NoCalls
                  /\ ~ resp.wrote
                  /\ ~ resp.success

\* C22 witness: the key was written in hex, the module of exchange-token
\* did not load and a request for it failed.
C22_Witness ==
    /\ Len(encryptionKey) = 48
    /\ resp.kind = "exchange"
    /\ resp.thrown = KeyLengthError
    /\ started = MaxStarted

\* C23: a success response of an exchange comes after one exchange call
\* and one table write of the request, in that order; its body carries the
\* item_id the provider returned, and when it is sent the table holds a row
\* of that item_id whose user_id is the requester and whose access_token is
\* the blob just made from the credential the provider issued.
C23_SuccessMeansStored ==
    (resp.kind \in ExchangeKinds /\ resp.success)
        => /\ resp.public_token \in DOMAIN ExchangeTable
           /\ resp.calls = [NoCalls EXCEPT !.exchange = 1, !.store = 1]
           /\ resp.wrote
           /\ resp.body_item_id = ExchangeTable[resp.public_token].item_id
           /\ \E row \in plaid_items :
                 /\ row.item_id = ExchangeTable[resp.public_token].item_id
                 /\ row.user_id = resp.caller
                 /\ row.access_token = lastLink[row.item_id].encrypted
                 /\ decrypt(row.access_token).ok
                 /\ decrypt(row.access_token).value
                        = ExchangeTable[resp.public_token].access_token

\* the rows of user
OwnedBy(user) == {row \in plaid_items : row.user_id = user}

\* C24: GET user/plaid-items of an authenticated user (the table answering)
\* returns 200 and success true with the item_id of the user's row of the
\* greatest created_at, with null when the user has no row, and never with
\* the item_id of a row of another user.
C24_LatestItem ==
    (resp.kind = "plaid_items" /\ resp.caller \in Users /\ resp.dbError = "none")
        => /\ resp.status = 200
           /\ resp.success
           /\ resp.calls = [NoCalls EXCEPT !.lookup = 1]
           /\ IF OwnedBy(resp.caller) = {}
              THEN resp.body_item_id = ""
              ELSE \E row \in OwnedBy(resp.caller) :
                      /\ resp.body_item_id = row.item_id
                      /\ \A other \in OwnedBy(resp.caller) :
                            other.created_at <= row.created_at
           /\ \A row \in plaid_items :
                 row.item_id = resp.body_item_id => row.user_id = resp.caller

\* C24 witness: a user with two rows got the item_id of the newer one, which
\* is i1.
C24_Witness ==
    /\ resp.kind = "plaid_items"
    /\ resp.status = 200
    /\ Cardinality(OwnedBy(resp.caller)) = 2
    /\ resp.body_item_id = "i1"

ItemIds(rows) == {row.item_id : row \in rows}

\* a successful answer of GET user/plaid-items to the user of the page, after
\* a disconnect
AnswerAfterDisconnect ==
    /\ resp.kind = "plaid_items"
    /\ resp.caller = PageUser
    /\ resp.status = 200
    /\ home.dropped # ""

\* C25 as stated: after a disconnect every later GET user/plaid-items of that
\* user returns the disconnected item.
C25_LaterGetReturnsItem ==
    AnswerAfterDisconnect => resp.body_item_id = home.dropped

\* C25: no step removes an item_id (or a row) from the table; handleDisconnect
\* changes nothing but currentItemId and fetchError of the page (and the
\* note of what it dropped) and leaves the server alone; and a later GET
\* user/plaid-items of the user returns the disconnected item whenever its
\* row is still the newest row of that user, that is unless the user linked
\* a newer item or another user re-linked this one since.
C25_NoDeletion ==
    [][/\ ItemIds(plaid_items) \subseteq ItemIds(plaid_items')
       /\ Cardinality(plaid_items) <= Cardinality(plaid_items')
       /\ home'.dropped # home.dropped
            => /\ home.currentItemId = home'.dropped
               /\ home' = [home EXCEPT !.dropped = home'.dropped,
                                        !.currentItemId = "", !.fetchError = ""]
               /\ UNCHANGED <<encryptionKey, serverVars, codecVars>>
       /\ AnswerAfterDisconnect'
            => /\ home'.dropped \in ItemIds(plaid_items')
               /\ FindLatest(plaid_items', PageUser).data.item_id = home'.dropped
                     => resp'.body_item_id = home'.dropped
      ]_vars

\* C25 witness: the page disconnected i1 and a GET user/plaid-items of its
\* user answered i1 afterwards.
C25_Witness ==
    /\ AnswerAfterDisconnect
    /\ home.dropped = "i1"
    /\ home.currentItemId = ""
    /\ resp.body_item_id = "i1"

\* C26: a successful get-transactions response carries the transactions,
\* accounts and item that transactionsGet returned for the credential
\* decrypted from the row of the item, each as the provider gave it (same
\* members, same order); no other response carries any.
C26_ProviderDataPassedThrough ==
    IF resp.kind = "get_transactions" /\ resp.status = 200
    THEN /\ resp.success
         /\ \E row \in plaid_items :
               /\ row.item_id = resp.item_id
               /\ row.user_id = resp.caller
               /\ decrypt(row.access_token).ok
               /\ resp.data = TransactionsOf(decrypt(row.access_token).value)
    ELSE resp.data = NoData

\* C26 witness: a fetch of i1 returned the three transactions of its
\* credential, whose order is not the order of their dates.
C26_Witness ==
    /\ resp.kind = "get_transactions"
    /\ resp.status = 200
    /\ resp.item_id = "i1"
    /\ Len(resp.data.transactions) = 3
    /\ resp.data.transactions[1].date < resp.data.transactions[2].date
    /\ resp.data.accounts = <<"acc2", "acc1">>

\* C27: owner and credential of every row were written together by one
\* exchange request, and the session of that request was the owner's, so the
\* credential a successful fetch uses was obtained by an exchange of the
\* fetching user; after a re-link by another user the row is no longer the
\* previous owner's, whose fetch then finds no row.
C27_CredentialProvenance ==
    /\ \A row \in plaid_items :
          LET written == lastLink[row.item_id]
          IN  written # NoLink
                 => /\ written.userId = row.user_id
                    /\ written.encrypted = row.access_token
                    /\ written.caller = row.user_id
    /\ (resp.kind = "get_transactions" /\ resp.status = 200)
          => /\ resp.rowOwner = resp.caller
             /\ lastLink[resp.item_id].userId = resp.caller
                   => lastLink[resp.item_id].caller = resp.caller

\* how a run of handleSuccess that is over has left the connector
LinkRunEnded ==
    (link.pc = "idle" /\ link.last # NoOutcome)
        => IF link.last.settled = "resolved" /\ link.last.body.json
                 /\ link.last.ok /\ link.last.body.success
                 /\ link.last.body.item_id # ""
           THEN link.notified = <<link.last.body.item_id>>
           ELSE /\ link.notified = <<>>
                /\ link.mounted => link.apiError # ""

\* C28: onConnectionSuccess is called only with the non-empty item_id of a
\* response that is ok and has success true, and once in that run; a run
\* that ends in any other way (no user, a response that is not ok, success
\* false, no item_id, a body that is no JSON, fetch rejecting) calls it not
\* at all and leaves apiError set; no call happens while the run awaits;
\* and exchangeLoading, once true, becomes false again.
C28_LinkCompletion ==
    /\ [](/\ LinkRunEnded
          /\ link.pc \in {"awaiting", "reading"} => link.notified = <<>>
          /\ link.exchangeLoading => link.pc \in {"awaiting", "reading"})
    /\ [](link.exchangeLoading => <>(~ link.exchangeLoading))
    /\ [](link.pc \in {"awaiting", "reading"} => <>(link.pc = "idle"))

\* C28 witness: in its second run handleSuccess passed i1 to
\* onConnectionSuccess, exchangeLoading being false again.
C28_Witness ==
    /\ link.pc = "idle"
    /\ link.mounted
    /\ link.runs = MaxLinkRuns
    /\ link.notified = <<"i1">>
    /\ link.exchangeSuccess
    /\ ~ link.exchangeLoading
    /\ link.apiError = ""

\* C29: whatever the order of prop changes and responses, the transactions,
\* the accounts and the error the component holds were fetched for its
\* current itemId, and it holds no transactions while itemId is null.
C29_NoStaleOverwrite ==
    txlist.pc = "mounted"
        => /\ txlist.transactions \in {"", txlist.itemId}
           /\ txlist.accounts \in {"", txlist.itemId}
           /\ txlist.error \in {"", txlist.itemId}
           /\ txlist.itemId = "" => txlist.transactions = ""

====
